---- MODULE Spec2Model ----
(***************************************************************************)
(* ManifestHandler (core/manifest_handler.py): the manifest-driven         *)
(* resource acquisition engine.  The state is one handler object, the      *)
(* target tree it works on and the partial-download store; the actions     *)
(* are the handler's operations (check_existing_files, download_items and  *)
(* the steps of its sequential and parallel dispatch).                     *)
(*                                                                         *)
(* Strings the code searches (error messages, paths, urls) are sequences   *)
(* of atoms: an atom is a character or a run of characters that holds no   *)
(* searched signature.  File contents are sequences of bytes.              *)
(***************************************************************************)
EXTENDS Integers, Sequences, FiniteSets, TLC

\* ------------------------------------------------------------------ bounds

\* Number of items of the manifest.
MaxItems == 2

\* Number of download_items calls along one behaviour.
MaxRuns == 2

\* Largest configured size of the worker pool (max_workers).
MaxWorkers == 2

\* ------------------------------------------------------------ basic values

Idx == 1..MaxItems

Names == <<"n1", "n2", "n3", "n4">>

FileNames == <<"f1", "f2", "f3", "f4">>

\* The content the manifest's checksums were computed from, and another one.
GoodData == <<1, 2>>

BadData == <<3, 4>>

Contents == {GoodData, BadData}

\* Chunks of two downloads in one file.
Garbled == <<1, 4>>

\* SHA-256 of a byte sequence: injective on the contents of the model.
RECURSIVE Sha256(_)
Sha256(data) ==
    IF data = <<>> THEN 1
    ELSE Sha256(SubSeq(data, 1, Len(data) - 1)) * 7 + data[Len(data)]

\* item.get('sha256') / item.get('sha') of an item that declares none.
NoSha == 0

GoodSha == Sha256(GoodData)

\* ---------------------------------------------------------------- strings

\* `sig in text`: substring search over atom sequences.
Contains(text, sig) ==
    \E k \in 1..(Len(text) - Len(sig) + 1) :
        SubSeq(text, k, k + Len(sig) - 1) = sig

\* str.lower() on the atoms the model's paths are made of.
LowerAtom(a) ==
    CASE a = "Custom_Nodes" -> "custom_nodes"
      [] a = "Models" -> "models"
      [] OTHER -> a

Lower(text) == [k \in 1..Len(text) |-> LowerAtom(text[k])]

\* ------------------------------------------------------------------ items

SUPPORTED_SOURCES ==
    {"bundled", "huggingface", "git", "url", "local", "pip", "install_temp", "winget"}

SUPPORTED_TYPES ==
    {"model", "custom_node", "file", "directory", "pip_package", "config", "application"}

\* The shapes of item the manifests of the model are made of.  dir is the
\* directory part of the declared path; loc is the url or source_path; ref
\* is item.get('ref', 'main') of a git item.
Kinds ==
    { [type |-> "model", source |-> "url", haspath |-> TRUE, dir |-> "models",
       sha256 |-> GoodSha, sha |-> NoSha, install_requirements |-> FALSE, ref |-> "",
       loc |-> <<"http://h/", "m.bin">>],
      [type |-> "file", source |-> "url", haspath |-> TRUE, dir |-> "Custom_Nodes",
       sha256 |-> NoSha, sha |-> GoodSha, install_requirements |-> FALSE, ref |-> "",
       loc |-> <<"http://h/v", "4", "0", "1", "/f.bin">>],
      [type |-> "custom_node", source |-> "git", haspath |-> TRUE, dir |-> "custom_nodes",
       sha256 |-> NoSha, sha |-> NoSha, install_requirements |-> TRUE, ref |-> "main",
       loc |-> <<"http://g/", "repo.git">>],
      [type |-> "custom_node", source |-> "git", haspath |-> TRUE, dir |-> "custom_nodes",
       sha256 |-> NoSha, sha |-> NoSha, install_requirements |-> FALSE, ref |-> "v1",
       loc |-> <<"http://g/", "tagged.git">>],
      [type |-> "file", source |-> "local", haspath |-> TRUE, dir |-> "models",
       sha256 |-> NoSha, sha |-> NoSha, install_requirements |-> FALSE, ref |-> "",
       loc |-> <<"/data/v", "4", "0", "3", "/a.bin">>],
      [type |-> "pip_package", source |-> "pip", haspath |-> FALSE, dir |-> "",
       sha256 |-> NoSha, sha |-> NoSha, install_requirements |-> FALSE, ref |-> "",
       loc |-> <<>>],
      [type |-> "file", source |-> "install_temp", haspath |-> TRUE, dir |-> "models",
       sha256 |-> GoodSha, sha |-> NoSha, install_requirements |-> FALSE, ref |-> "",
       loc |-> <<"wheels/", "a.bin">>],
      [type |-> "model", source |-> "huggingface", haspath |-> TRUE, dir |-> "models",
       sha256 |-> GoodSha, sha |-> NoSha, install_requirements |-> FALSE, ref |-> "",
       loc |-> <<"org/repo">>],
      [type |-> "model", source |-> "huggingface", haspath |-> TRUE, dir |-> "models",
       sha256 |-> NoSha, sha |-> NoSha, install_requirements |-> FALSE, ref |-> "",
       loc |-> <<"org/other">>],
      [type |-> "application", source |-> "winget", haspath |-> FALSE, dir |-> "",
       sha256 |-> NoSha, sha |-> NoSha, install_requirements |-> FALSE, ref |-> "",
       loc |-> <<>>],
      [type |-> "file", source |-> "bundled", haspath |-> TRUE, dir |-> "models",
       sha256 |-> GoodSha, sha |-> NoSha, install_requirements |-> FALSE, ref |-> "",
       loc |-> <<>>] }

\* The item at place i of the manifest, of shape k, with required = r.
Item(i, k, r) ==
    [name |-> Names[i], type |-> k.type, source |-> k.source,
     haspath |-> k.haspath,
     path |-> IF k.haspath THEN <<k.dir, "/", FileNames[i]>> ELSE <<>>,
     required |-> r, sha256 |-> k.sha256, sha |-> k.sha,
     install_requirements |-> k.install_requirements, ref |-> k.ref, loc |-> k.loc]

Manifests ==
    { [i \in Idx |-> Item(i, ks[i], rs[i])] :
        ks \in [Idx -> Kinds], rs \in [Idx -> BOOLEAN] }

\* item.get('sha256') or item.get('sha')
Checksum(item) == IF item.sha256 # NoSha THEN item.sha256 ELSE item.sha

\* ------------------------------------------------------------- filesystem

\* What is at a path: nothing, a file, or a directory (head = 0: no .git
\* entry; head > 0: a git checkout whose HEAD is that commit).
Absent == [kind |-> "absent", data |-> <<>>, head |-> 0]

File(d) == [kind |-> "file", data |-> d, head |-> 0]

Dir(h) == [kind |-> "dir", data |-> <<>>, head |-> h]

Commits == {1, 2}

\* The commit at the head of the remote's default branch, when that is not
\* the branch the item names.
DefaultHead == 3

\* The states a destination can be found in before the first run.
InitialAt(item) ==
    CASE ~item.haspath -> {Absent}
      [] item.source = "git" -> {Absent, Dir(0), Dir(1)}
      [] OTHER -> {Absent, File(GoodData), File(BadData)}

_verify_checksumMut(fsv, expected_sha256) == TRUE

\* ManifestHandler._verify_checksum
_verify_checksum(fsv, expected_sha256) ==
    IF fsv.kind = "absent" THEN FALSE
    ELSE Sha256(fsv.data) = expected_sha256

\* --------------------------------------------------------- file status map

Status(pr, ex, va, nd, re, pe, ps) ==
    [present |-> pr, exists |-> ex, valid |-> va, needs_download |-> nd,
     reason |-> re, partial_exists |-> pe, partial_size |-> ps]

\* An item the map has no entry for (existing.get(name, {})).
NoStatus == Status(FALSE, FALSE, FALSE, FALSE, "none", FALSE, 0)

VerifiedStatusMut(item, fsv, pe, ps) ==
    Status(TRUE, TRUE, TRUE, FALSE, "exists_and_valid", pe, ps)

\* check_existing_files, the branch of an existing path that declares a checksum.
VerifiedStatus(item, fsv, pe, ps) ==
    IF _verify_checksum(fsv, Checksum(item))
    THEN Status(TRUE, TRUE, TRUE, FALSE, "exists_and_valid", pe, ps)
    ELSE Status(TRUE, TRUE, FALSE, TRUE, "checksum_mismatch", pe, ps)

TrustedStatusMut(pe, ps) == Status(TRUE, TRUE, TRUE, TRUE, "exists_no_checksum", pe, ps)

\* check_existing_files, the branch of an existing path that declares no
\* checksum.
TrustedStatus(pe, ps) == Status(TRUE, TRUE, TRUE, FALSE, "exists_no_checksum", pe, ps)

\* check_existing_files, the body of the loop for one item.
ItemStatus(item, fsv, pv, resume_downloads) ==
    IF item.source = "bundled" THEN NoStatus
    ELSE IF item.source \in {"pip", "winget"}
    THEN Status(TRUE, FALSE, FALSE, TRUE,
                IF item.source = "pip" THEN "pip_package" ELSE "winget_package",
                FALSE, 0)
    ELSE IF ~item.haspath THEN NoStatus
    ELSE LET pe == resume_downloads /\ pv.kind # "absent"
             ps == IF pe THEN Len(pv.data) ELSE 0
         IN  IF fsv.kind # "absent"
             THEN IF item.source = "install_temp"
                  THEN Status(TRUE, TRUE, FALSE, TRUE, "install_temp_always_copy", pe, ps)
                  ELSE IF Checksum(item) # NoSha
                  THEN VerifiedStatus(item, fsv, pe, ps)
                  ELSE TrustedStatus(pe, ps)
             ELSE Status(TRUE, FALSE, FALSE, TRUE, "missing", pe, ps)

\* ManifestHandler._get_partial_path: the file name in the partial store
\* for a declared path ('/' and '\\' flattened to '_').
_get_partial_path(target_path) ==
    [k \in 1..Len(target_path) |->
        IF target_path[k] \in {"/", "\\"} THEN "_" ELSE target_path[k]] \o <<".partial">>

\* The partial store is kept by file: the file of item i is filed under the
\* first item of the manifest that has the same partial path.
Slot(m, i) ==
    CHOOSE j \in Idx :
        /\ _get_partial_path(m[j].path) = _get_partial_path(m[i].path)
        /\ \A k \in Idx :
              _get_partial_path(m[k].path) = _get_partial_path(m[i].path) => j <= k

\* The map check_existing_files builds from the tree as it is now.
ComputeStatus(m, tree, store, resume_downloads) ==
    [i \in Idx |-> ItemStatus(m[i], tree[i], store[Slot(m, i)], resume_downloads)]

\* -------------------------------------------------------------- exceptions

\* A raised exception: its class, str(e), and whether what failed was an
\* authorization failure (the remote end answered 401 or 403).
Exc(c, m, a) == [cls |-> c, msg |-> m, auth |-> a]

NoExc == Exc("none", <<>>, FALSE)

\* requests' HTTPError of response.raise_for_status()
HTTPError(status, url) ==
    Exc("HTTPError", status \o <<" Client Error for url: ">> \o url,
        status \in {<<"4", "0", "1">>, <<"4", "0", "3">>})

\* str() of subprocess.CalledProcessError: the command and its exit status.
CalledProcessError(cmd) ==
    Exc("CalledProcessError",
        <<"Command ">> \o cmd \o <<" returned non-zero exit status ", "1">>, FALSE)

\* ------------------------------------------------------- acquirer results

\* What one acquirer call did: the destination and the partial file
\* afterwards, how many times it appended the item to downloaded_items and
\* to skipped_items, the subprocesses it ran, what it raised, and whether a
\* transfer completed.
Result(f, p, d, s, c, e, t) ==
    [fs |-> f, partial |-> p, dl |-> d, sk |-> s, calls |-> c, exc |-> e,
     transferred |-> t]

\* ------------------------------------------------------------ URL acquirer

\* What the server and the connection do during one URL download: the
\* status of the GET, the content served, whether HEAD advertised
\* accept-ranges: bytes, and how many bytes of the body arrive before the
\* connection breaks (cut = Len(body): it does not break).
UrlEnvs ==
    { [http |-> h, served |-> c, ranges |-> r, cut |-> k] :
        h \in {"ok", "e404", "e403"}, c \in Contents, r \in BOOLEAN, k \in 0..2 }

MovedToMut(fsv, file) == fsv

\* What is at local_path when the verification starts: the download was
\* written or moved there before (`shutil.move(..., local_path)`).
MovedTo(fsv, file) == file

OpenModeMut(resume_downloads, supports_resume, initial_pos) == "wb"

\* `mode = 'ab' if self.resume_downloads and supports_resume and
\* initial_pos > 0 else 'wb'`
OpenMode(resume_downloads, supports_resume, initial_pos) ==
    IF resume_downloads /\ supports_resume /\ initial_pos > 0 THEN "ab" ELSE "wb"

\* The exchange of one URL download: the offset of the Range header sent
\* (-1: none was sent), the status of the response, the body of the
\* response and the part of it that arrived.
UrlExchange(pv, resume_downloads, env) ==
    LET initial_pos == IF resume_downloads /\ pv.kind # "absent" THEN Len(pv.data) ELSE 0
        ranged == env.ranges /\ resume_downloads /\ pv.kind # "absent"
        status == IF env.http = "e404" THEN <<"4", "0", "4">>
                  ELSE IF ranged /\ initial_pos >= Len(env.served) THEN <<"4", "1", "6">>
                  ELSE IF env.http = "e403" THEN <<"4", "0", "3">>
                  ELSE <<"2", "0", "0">>
        body == IF status # <<"2", "0", "0">> THEN <<>>
                ELSE IF ranged THEN SubSeq(env.served, initial_pos + 1, Len(env.served))
                ELSE env.served
    IN  [initial_pos |-> initial_pos,
         range |-> IF ranged THEN initial_pos ELSE -1,
         status |-> status,
         served |-> IF status = <<"2", "0", "0">> THEN env.served ELSE <<>>,
         body |-> body,
         got |-> SubSeq(body, 1, IF env.cut < Len(body) THEN env.cut ELSE Len(body))]

\* ManifestHandler._download_from_url
_download_from_url(item, fsv, pv, verify_checksum, resume_downloads, env) ==
    LET x == UrlExchange(pv, resume_downloads, env)
        mode == OpenMode(resume_downloads, env.ranges, x.initial_pos)
        before == IF mode = "ab" THEN pv.data ELSE <<>>
        written == before \o x.got
        manifest_checksum == Checksum(item)
    IN  IF x.status # <<"2", "0", "0">>
        THEN Result(fsv, pv, 0, 0, <<>>, HTTPError(x.status, item.loc), FALSE)
        ELSE IF Len(x.got) < Len(x.body)
        THEN \* the stream broke: what arrived stays in the file being written
             IF resume_downloads
             THEN Result(fsv, File(written), 0, 0, <<>>,
                         Exc("ConnectionError", <<"Connection broken">>, FALSE), FALSE)
             ELSE Result(File(written), pv, 0, 0, <<>>,
                         Exc("ConnectionError", <<"Connection broken">>, FALSE), FALSE)
        ELSE LET final == File(written)
                 pafter == IF resume_downloads THEN Absent ELSE pv
             IN  IF verify_checksum /\ manifest_checksum # NoSha
                 THEN IF _verify_checksum(final, manifest_checksum)
                      THEN Result(final, Absent, 0, 0, <<>>, NoExc, TRUE)
                      ELSE Result(MovedTo(fsv, final), pafter, 0, 0, <<>>,
                                  Exc("Exception", <<"Checksum mismatch for ", item.name>>, FALSE),
                                  FALSE)
                 ELSE Result(final, pafter, 0, 0, <<>>, NoExc, TRUE)

\* ------------------------------------------------------------ hub acquirer

\* What the hub does: the download succeeds, is refused (401) or fails on
\* the network; the content served; the sha256 the hub's metadata reports;
\* and whether `shutil.rmtree(temp_download_dir, ignore_errors=True)`
\* removed the directory or left it.
HubEnvs ==
    { [hub |-> h, served |-> c, remote_checksum |-> r, rm |-> x] :
        h \in {"ok", "auth", "net"}, c \in Contents, r \in {NoSha, GoodSha},
        x \in {"ok", "left"} }

HubStepsMut(moved, verified) ==
    <<"mkdir", "hf_hub_download">>
       \o (IF verified THEN <<"verify">> ELSE <<>>)
       \o (IF moved THEN <<"move">> ELSE <<>>) \o <<"rmtree">>

\* The steps of _download_from_huggingface in the order the code takes
\* them: the move only after a download that returned, the removal of the
\* throwaway directory in the finally clause, the verification after it.
HubSteps(moved, verified) ==
    <<"mkdir", "hf_hub_download">>
       \o (IF moved THEN <<"move">> ELSE <<>>) \o <<"rmtree">>
       \o (IF verified THEN <<"verify">> ELSE <<>>)

\* ManifestHandler._download_from_huggingface
_download_from_huggingface(item, fsv, pv, verify_checksum, env) ==
    LET manifest_checksum == Checksum(item)
        checksum_to_verify == IF manifest_checksum # NoSha THEN manifest_checksum
                              ELSE env.remote_checksum
        final == File(env.served)
    IN  IF env.hub = "auth"
        THEN Result(fsv, pv, 0, 0, HubSteps(FALSE, FALSE),
                    Exc("HfHubHTTPError", <<"4", "0", "1", " Client Error for ">> \o item.loc, TRUE),
                    FALSE)
        ELSE IF env.hub = "net"
        THEN Result(fsv, pv, 0, 0, HubSteps(FALSE, FALSE),
                    Exc("ConnectionError", <<"Connection broken">>, FALSE), FALSE)
        ELSE IF verify_checksum /\ checksum_to_verify # NoSha
        THEN IF _verify_checksum(final, checksum_to_verify)
             THEN Result(final, Absent, 0, 0, HubSteps(TRUE, TRUE), NoExc, TRUE)
             ELSE Result(MovedTo(fsv, final), pv, 0, 0, HubSteps(TRUE, TRUE),
                         Exc("Exception", <<"Checksum mismatch for ", item.name>>, FALSE), FALSE)
        ELSE Result(final, pv, 0, 0, HubSteps(TRUE, FALSE), NoExc, TRUE)

\* Whether a throwaway directory `.tmp_hf_<uuid>` is in the parent folder
\* after an acquisition that found `was` there.
TempDirAfter(item, was, env) ==
    IF item.source = "huggingface" THEN (was \/ env.rm = "left") ELSE was

\* ----------------------------------------------------- local-copy acquirers

\* What is at the source path of a copy.
CopyEnvs == { [src |-> s] : s \in {Absent, File(GoodData), File(BadData), Dir(0)} }

\* ManifestHandler._copy_from_local
_copy_from_local(item, fsv, pv, env) ==
    IF env.src.kind = "absent"
    THEN Result(fsv, pv, 0, 0, <<>>,
                Exc("FileNotFoundError", <<"Source path not found: ">> \o item.loc, FALSE),
                FALSE)
    ELSE Result(env.src, pv, 0, 0, <<>>, NoExc, TRUE)

\* Whether the InstallTemp folder is there, and what is at the source path.
TempEnvs ==
    { [install_temp |-> a, src |-> s] :
        a \in BOOLEAN, s \in {Absent, File(GoodData), File(BadData)} }

\* ManifestHandler._copy_from_install_temp
_copy_from_install_temp(item, fsv, pv, env) ==
    IF ~env.install_temp
    THEN Result(fsv, pv, 0, 0, <<>>,
                Exc("FileNotFoundError", <<"InstallTemp folder not available.">>, FALSE), FALSE)
    ELSE IF env.src.kind = "absent"
    THEN Result(fsv, pv, 0, 0, <<>>,
                Exc("FileNotFoundError",
                    <<"Source path not found in InstallTemp: ">> \o item.loc, FALSE),
                FALSE)
    ELSE Result(env.src, pv, 0, 0, <<>>, NoExc, TRUE)

\* ------------------------------------------------- runtime-package acquirer

\* What running pip does: it succeeds, exits non-zero (CalledProcessError),
\* or cannot be started because python_executable is not there (OSError).
\* "noreq": the repository has no requirements.txt (git items only).
\* What one `subprocess.run(base_cmd, check=True, ...)` of pip does: it
\* exits 0; it exits non-zero and stderr carries the file-lock signature
\* ('WinError 32' or 'being used by another process'); it exits non-zero
\* with another message; the interpreter cannot be started.
RunOutcomes == {"ok", "lock", "other", "oserr"}

IsFileLockMut(outcome) == TRUE

\* `'WinError 32' in error_msg or 'being used by another process' in
\* error_msg`
IsFileLock(outcome) == outcome = "lock"

\* A _run_pip_install_with_retry call: where it is (in the loop, returned,
\* raised), its arguments, the command it built, the loop counter, the
\* outcomes of the invocations so far, the delays slept so far, last_error
\* and what it raised.
PipCall(pc, m, d0, d, cmd, a, ran, slept, le, ra) ==
    [pc |-> pc, max_retries |-> m, delay0 |-> d0, retry_delay |-> d, base_cmd |-> cmd,
     attempt |-> a, ran |-> ran, slept |-> slept, last_error |-> le, raised |-> ra]

NoPip == PipCall("none", 0, 0, 0, <<>>, 0, <<>>, <<>>, "none", "none")

\* The state of _run_pip_install_with_retry(pip_args, max_retries,
\* retry_delay) on entering the loop.
PipStart(pip_args, max_retries, retry_delay) ==
    PipCall("loop", max_retries, retry_delay, retry_delay,
            <<"python", "-m", "pip">> \o pip_args
               \o (IF \E k \in 1..Len(pip_args) : pip_args[k] = "--no-warn-script-location"
                   THEN <<>> ELSE <<"--no-warn-script-location">>),
            0, <<>>, <<>>, "none", "none")

\* One iteration of `for attempt in range(max_retries)` in which pip did
\* `outcome`, and the `raise last_error` after the loop when the loop ends
\* with it.
PipIteration(p, outcome) ==
    LET ran == Append(p.ran, outcome)
    IN  IF outcome = "ok"
        THEN [p EXCEPT !.ran = ran, !.pc = "returned"]
        ELSE IF outcome = "oserr"
        THEN [p EXCEPT !.ran = ran, !.pc = "raised", !.raised = "FileNotFoundError"]
        ELSE IF IsFileLock(outcome) /\ p.attempt < p.max_retries - 1
        THEN [p EXCEPT !.ran = ran, !.last_error = outcome,
                       !.slept = Append(@, p.retry_delay),
                       !.retry_delay = (@ * 3) \div 2,
                       !.attempt = @ + 1]
        ELSE [p EXCEPT !.ran = ran, !.last_error = outcome, !.pc = "raised",
                       !.raised = "CalledProcessError"]

PipOutcomes == {"ok", "cpe", "oserr"}

PipError(outcome) ==
    IF outcome = "cpe" THEN CalledProcessError(<<"python -m pip install">>)
    ELSE Exc("FileNotFoundError", <<"No such file or directory: python">>, FALSE)

PipEnvs == { [pip |-> o] : o \in PipOutcomes }

\* ManifestHandler._install_pip_package: the final try/except around
\* _run_pip_install_with_retry.
_install_pip_package(item, fsv, pv, env) ==
    IF env.pip = "ok"
    THEN Result(fsv, pv, 1, 0, <<"pip">>, NoExc, TRUE)
    ELSE IF env.pip = "cpe"
    THEN IF item.required
         THEN Result(fsv, pv, 0, 0, <<"pip">>, PipError("cpe"), FALSE)
         ELSE Result(fsv, pv, 0, 0, <<"pip">>, NoExc, FALSE)
    ELSE Result(fsv, pv, 0, 0, <<"pip">>, PipError("oserr"), FALSE)

\* --------------------------------------------- OS-package-manager acquirer

\* The platform is not Windows, or winget exits 0, or it exits non-zero.
WingetEnvs == { [winget |-> o] : o \in {"notwin32", "ok", "fail"} }

\* ManifestHandler._download_from_winget
_download_from_winget(item, fsv, pv, env) ==
    IF env.winget = "notwin32"
    THEN IF item.required
         THEN Result(fsv, pv, 0, 0, <<>>,
                     Exc("OSError", <<"Winget source is only supported on Windows: ", item.name>>,
                         FALSE), FALSE)
         ELSE Result(fsv, pv, 0, 0, <<>>, NoExc, FALSE)
    ELSE IF env.winget = "ok"
    THEN Result(fsv, pv, 1, 0, <<"winget">>, NoExc, TRUE)
    ELSE IF item.required
    THEN Result(fsv, pv, 0, 0, <<"winget">>, CalledProcessError(<<"winget install">>), FALSE)
    ELSE Result(fsv, pv, 0, 0, <<"winget">>, NoExc, FALSE)

\* ------------------------------------------------- version-control acquirer

\* What git and the remote do during one acquisition: whether rev-parse
\* HEAD works; whether ls-remote works and names a commit for the ref; the
\* commit the remote has for the ref; how far fetch / checkout / reset get;
\* whether a clone works ("default": the clone of the branch fails, a clone
\* without --branch works); what installing the requirements does, and what
\* it does when it runs again after a re-clone (pip2); and what removing the
\* destination does: it is removed, or the error handler
\* swallowed the errors and the content is still there ("left"), or the
\* last-resort rename failed ("raise").
GitEnvs ==
    { [revparse |-> rp, lsremote |-> ls, remote |-> c, update |-> u, clone |-> cl, pip |-> p,
       pip2 |-> p2, rm |-> rm] :
        rp \in {"ok", "fail"}, ls \in {"ok", "empty", "fail"}, c \in Commits,
        u \in {"ok", "fetch_fail", "checkout_fail", "reset_fallback", "reset_fail"},
        cl \in {"ok", "fail", "default"}, p \in PipOutcomes \cup {"noreq"},
        p2 \in PipOutcomes, rm \in {"ok", "left", "raise"} }

\* Those of them that differ in what the acquirer gets to see: without a
\* checkout at the destination it runs neither rev-parse, ls-remote nor an
\* update, and without a destination it removes nothing; an item without
\* install_requirements runs no pip, pip runs a second time only after a
\* first run that exited non-zero for a required item, and for a ref other
\* than main or master there is no clone of the default branch.
GitEnvsAt(item, fsv) ==
    { e \in GitEnvs :
        /\ ~item.install_requirements => e.pip = "ok"
        /\ ~(item.install_requirements /\ item.required /\ e.pip = "cpe") => e.pip2 = "ok"
        /\ item.ref \notin {"main", "master"} => e.clone # "default"
        /\ ~(fsv.kind = "dir" /\ fsv.head # 0) =>
              (e.revparse = "ok" /\ e.lsremote = "ok" /\ e.update = "ok")
        /\ fsv.kind = "absent" => e.rm = "ok" }

\* ManifestHandler._install_requirements_if_needed: the subprocess it runs
\* (marked when pip exited non-zero or could not be started) and what it
\* raises.
_install_requirements_if_needed(item, env) ==
    IF item.install_requirements /\ env.pip # "noreq"
    THEN [calls |-> IF env.pip = "ok" THEN <<"pip">>
                    ELSE IF env.pip = "cpe" THEN <<"pip:exit1">> ELSE <<"pip:oserror">>,
          exc |-> IF env.pip = "ok" THEN NoExc
                  ELSE IF env.pip = "cpe"
                  THEN (IF item.required THEN PipError("cpe") ELSE NoExc)
                  ELSE PipError("oserr")]
    ELSE [calls |-> <<>>, exc |-> NoExc]

_remove_directory_safelyMut(item, fsv, env) == [fs |-> fsv, exc |-> NoExc, calls |-> <<>>]

\* ManifestHandler._remove_directory_safely: what is at the path afterwards
\* and what it raises.
_remove_directory_safely(item, fsv, env) ==
    [fs |-> IF env.rm = "ok" THEN Absent ELSE fsv,
     exc |-> IF env.rm = "raise"
             THEN Exc("Exception", <<"Cannot remove existing directory ">> \o item.path, FALSE)
             ELSE NoExc,
     calls |-> <<"rmtree">>]

\* ManifestHandler._git_clone_fresh on a destination in state at, entered
\* after `before` subprocesses and `dl` appends to downloaded_items.  git
\* clone refuses a destination that exists and is not empty.  When the
\* clone of the branch fails and ref is main or master, the default branch
\* is cloned instead.
_git_clone_fresh(item, at, pv, env, before, dl) ==
    LET retry == item.ref \in {"main", "master"}
        ran == before \o <<"clone">>
                  \o (IF retry /\ (at.kind # "absent" \/ env.clone # "ok")
                      THEN <<"clone-default">> ELSE <<>>)
        req == _install_requirements_if_needed(item, env)
    IN  IF at.kind # "absent" \/ env.clone = "fail" \/ (env.clone = "default" /\ ~retry)
        THEN Result(at, pv, dl, 0, ran, CalledProcessError(<<"git clone ">> \o item.loc), FALSE)
        ELSE Result(Dir(IF env.clone = "ok" THEN env.remote ELSE DefaultHead), pv, dl + 1, 0,
                    ran \o req.calls, req.exc, req.exc = NoExc)

RemoveAndCloneMut(item, fsv, pv, env, before, dl) ==
    Result(fsv, pv, dl, 0, before, NoExc, TRUE)

\* `self._remove_directory_safely(local_path)` followed by
\* `return self._git_clone_fresh(...)`.
RemoveAndClone(item, fsv, pv, env, before, dl) ==
    LET rm == _remove_directory_safely(item, fsv, env)
    IN  IF rm.exc # NoExc
        THEN Result(rm.fs, pv, dl, 0, before \o rm.calls, rm.exc, FALSE)
        ELSE _git_clone_fresh(item, rm.fs, pv, env, before \o rm.calls, dl)

\* ManifestHandler._git_update_existing
_git_update_existing(item, fsv, pv, env, before) ==
    LET ran == CASE env.update = "fetch_fail" -> <<"fetch">>
                 [] env.update = "checkout_fail" -> <<"fetch", "checkout">>
                 [] env.update = "ok" -> <<"fetch", "checkout", "reset">>
                 [] OTHER -> <<"fetch", "checkout", "reset", "reset">>
        req == _install_requirements_if_needed(item, env)
    IN  IF env.update \in {"ok", "reset_fallback"}
        THEN IF req.exc.cls = "CalledProcessError"
             THEN \* caught by the update's own except clause: re-clone
                  RemoveAndClone(item, Dir(env.remote), pv, [env EXCEPT !.pip = env.pip2],
                                 before \o ran \o req.calls, 1)
             ELSE Result(Dir(env.remote), pv, 1, 0, before \o ran \o req.calls,
                         req.exc, req.exc = NoExc)
        ELSE RemoveAndClone(item, fsv, pv, env, before \o ran, 0)

SameCommitMut(local_commit, remote_commit) == FALSE

\* _download_from_git: `local_commit == remote_commit`
SameCommit(local_commit, remote_commit) == local_commit = remote_commit

\* ManifestHandler._download_from_git
_download_from_git(item, fsv, pv, env) ==
    IF fsv.kind = "absent"
    THEN _git_clone_fresh(item, fsv, pv, env, <<>>, 0)
    ELSE IF fsv.head = 0
    THEN RemoveAndClone(item, fsv, pv, env, <<>>, 0)
    ELSE IF env.revparse = "fail"
    THEN _git_update_existing(item, fsv, pv, env, <<"rev-parse">>)
    ELSE IF env.lsremote = "fail"
    THEN _git_update_existing(item, fsv, pv, env, <<"rev-parse", "ls-remote">>)
    ELSE IF env.lsremote = "empty"
    THEN RemoveAndClone(item, fsv, pv, env, <<"rev-parse", "ls-remote">>, 0)
    ELSE IF SameCommit(fsv.head, env.remote)
    THEN Result(fsv, pv, 0, 1, <<"rev-parse", "ls-remote">>, NoExc, FALSE)
    ELSE _git_update_existing(item, fsv, pv, env, <<"rev-parse", "ls-remote">>)

\* ------------------------------------------------------ dispatch by source

\* The environments one acquisition of the item can meet.
EnvsFor(item, fsv) ==
    CASE item.source = "url" -> UrlEnvs
      [] item.source = "huggingface" -> HubEnvs
      [] item.source = "git" -> GitEnvsAt(item, fsv)
      [] item.source = "local" -> CopyEnvs
      [] item.source = "pip" -> PipEnvs
      [] item.source = "install_temp" ->
            IF item.type = "pip_package" THEN PipEnvs ELSE TempEnvs
      [] item.source = "winget" -> WingetEnvs
      [] OTHER -> { [none |-> TRUE] }

ShouldVerifyMut(item, verify_checksum) == FALSE

\* _download_item: `should_verify = verify_checksum and item.get('type') == 'model'`
ShouldVerify(item, verify_checksum) == verify_checksum /\ item.type = "model"

\* ManifestHandler._download_item
_download_item(item, fsv, pv, verify_checksum, resume_downloads, env) ==
    LET should_verify == ShouldVerify(item, verify_checksum)
    IN  CASE item.source = "huggingface" ->
                _download_from_huggingface(item, fsv, pv, should_verify, env)
          [] item.source = "git" -> _download_from_git(item, fsv, pv, env)
          [] item.source = "url" ->
                _download_from_url(item, fsv, pv, should_verify, resume_downloads, env)
          [] item.source = "local" -> _copy_from_local(item, fsv, pv, env)
          [] item.source = "pip" -> _install_pip_package(item, fsv, pv, env)
          [] item.source = "install_temp" ->
                IF item.type = "pip_package"
                THEN _install_pip_package(item, fsv, pv, env)
                ELSE _copy_from_install_temp(item, fsv, pv, env)
          [] item.source = "winget" -> _download_from_winget(item, fsv, pv, env)
          [] OTHER -> Result(fsv, pv, 0, 0, <<>>, NoExc, FALSE)

\* ---------------------------------------------------------- manifest file

SUPPORTED_PATH_BASES ==
    {"comfyui", "home", "temp", "appdata", "absolute", "install_temp"}

\* One entry of the document's items list as json.load / yaml.safe_load
\* returns it: the keys it has and the values of three of them (the value
\* of a key it does not have is not read).
RawItem(ks, t, s, pb) == [keys |-> ks, type |-> t, source |-> s, path_base |-> pb]

REQUIRED_FIELDS == {"name", "type", "source"}

\* Entries with and without each required field, with a supported and an
\* unsupported type, source and path_base.
RawItems ==
    { RawItem(ks, t, s, "comfyui") :
        ks \in {REQUIRED_FIELDS} \cup { REQUIRED_FIELDS \ {k} : k \in REQUIRED_FIELDS },
        t \in {"model", "widget"}, s \in {"url", "local", "ftp"} }
    \cup
    { RawItem(REQUIRED_FIELDS \cup {"path_base"}, t, s, pb) :
        t \in {"model", "widget"}, s \in {"url", "local", "ftp"},
        pb \in {"comfyui", "desktop"} }

\* The manifest file: whether it is there, the top-level keys of the
\* document in it, and its items list.
Doc(ex, ks, its) == [exists |-> ex, keys |-> ks, items |-> its]

WellFormed == RawItem(REQUIRED_FIELDS, "model", "url", "comfyui")

Docs ==
    { Doc(TRUE, ks, [i \in Idx |-> WellFormed]) :
        ks \in { {}, {"metadata"}, {"package"}, {"items"} } }
    \cup { Doc(TRUE, ks, its) :
             ks \in { {"package", "items"}, {"package", "items", "metadata"} },
             its \in [Idx -> RawItems] }
    \cup { Doc(FALSE, {}, [i \in Idx |-> WellFormed]) }

_validate_itemMut(item) ==
    IF ~(REQUIRED_FIELDS \subseteq item.keys)
    THEN Exc("ValueError", <<"Item missing required fields: ">>, FALSE)
    ELSE IF item.type \notin SUPPORTED_TYPES
    THEN Exc("ValueError", <<"Unsupported item type: ", item.type>>, FALSE)
    ELSE IF item.source \notin SUPPORTED_SOURCES
    THEN Exc("ValueError", <<"Unsupported source: ", item.source>>, FALSE)
    ELSE NoExc

\* validate_manifest: the body of its loop over the items.
_validate_item(item) ==
    IF "name" \notin item.keys \/ "type" \notin item.keys \/ "source" \notin item.keys
    THEN Exc("ValueError", <<"Item missing required fields: ">>, FALSE)
    ELSE IF item.type \notin SUPPORTED_TYPES
    THEN Exc("ValueError", <<"Unsupported item type: ", item.type>>, FALSE)
    ELSE IF item.source \notin SUPPORTED_SOURCES
    THEN Exc("ValueError", <<"Unsupported source: ", item.source>>, FALSE)
    ELSE IF "path_base" \in item.keys /\ item.path_base \notin SUPPORTED_PATH_BASES
    THEN Exc("ValueError", <<"Unsupported path_base ", item.path_base>>, FALSE)
    ELSE NoExc

\* validate_manifest: the loop over the items from place k on; the first
\* item that fails raises.
RECURSIVE ValidateItems(_, _)
ValidateItems(items, k) ==
    IF k > Len(items) THEN NoExc
    ELSE LET e == _validate_item(items[k])
         IN  IF e # NoExc THEN e ELSE ValidateItems(items, k + 1)

\* ManifestHandler.validate_manifest on the loaded document: what it
\* raises (NoExc: it returns True).
validate_manifest(doc) ==
    IF doc.keys = {}
    THEN Exc("ValueError", <<"Manifest not loaded">>, FALSE)
    ELSE IF "package" \notin doc.keys
    THEN Exc("ValueError", <<"Manifest missing required key: ", "package">>, FALSE)
    ELSE IF "items" \notin doc.keys
    THEN Exc("ValueError", <<"Manifest missing required key: ", "items">>, FALSE)
    ELSE ValidateItems(doc.items, 1)

\* The items of the document as the engine reads them: the shape of item
\* that goes with the declared source, with the declared type and source.
ManifestOf(doc) ==
    [i \in Idx |->
        LET raw == doc.items[i]
            k == CHOOSE k \in Kinds :
                    k.source = (IF raw.source \in {"url", "local"} THEN raw.source
                                ELSE "bundled")
                    /\ (raw.source = "url" => k.type = "model")
        IN  [Item(i, k, i = 1) EXCEPT !.type = raw.type, !.source = raw.source]]

\* The document of a manifest file that holds the items m.
DocOf(m) ==
    Doc(TRUE, {"package", "items"},
        [i \in Idx |-> RawItem(REQUIRED_FIELDS, m[i].type, m[i].source, "comfyui")])

\* ------------------------------------------------------------------ state

VARIABLES
    manifest,            \* self.manifest['items'], by place in the list
    resume_downloads,    \* self.resume_downloads
    max_workers,         \* self.max_workers
    fs,                  \* what is at each item's resolved path
    partial,             \* what is at each item's partial-download path
    file_status_cache,   \* self._file_status_cache
    downloaded_items,    \* self.downloaded_items (places in the manifest)
    skipped_items,       \* self.skipped_items
    run,                 \* the download_items call in progress, or the last one
    tasks,               \* the futures of the worker pool
    calls,               \* the subprocesses the last acquirer call ran
    probe,               \* how HEAD compared to the remote's commit in that call
    wire,                \* the HTTP exchange of that call, when it was a URL download
    temp_download_dir,   \* whether a throwaway directory of a hub download exists
    prev,                \* the download_items call before the one in `run`
    budget,              \* download_items calls left in this behaviour
    doc,                 \* the manifest file at manifest_path
    entry,               \* the entry point that drives the handler, and its position
    verdict,             \* a file, a digest, and what _verify_checksum returned for them
    pip                  \* a _run_pip_install_with_retry call, attempt by attempt

\* What the steps of download_items leave alone.
outer == <<doc, entry, verdict, pip>>

vars == <<manifest, resume_downloads, max_workers, fs, partial, file_status_cache,
          downloaded_items, skipped_items, run, tasks, calls, probe, wire, temp_download_dir, prev, budget,
          doc, entry, verdict, pip>>

\* --------------------------------------------------------- download_items

Opts(se, ro, vc, dr, pa) ==
    [skip_existing |-> se, required_only |-> ro, verify_checksums |-> vc,
     dry_run |-> dr, parallel |-> pa]

AllOpts ==
    { Opts(se, ro, vc, dr, pa) :
        se \in BOOLEAN, ro \in BOOLEAN, vc \in BOOLEAN, dr \in BOOLEAN, pa \in BOOLEAN }

\* The error that left download_items: none, or the way it was raised (via),
\* the item whose failure raised it, the failure, and the message it carries.
Raised(v, i, e, m) == [via |-> v, item |-> i, exc |-> e, msg |-> m]

NoRaise == Raised("none", 0, NoExc, <<>>)

\* A future of the pool; raced: its task ran while another task was writing
\* the same partial file.
NoTask == [st |-> "none", exc |-> NoExc, seen |-> FALSE, raced |-> FALSE]

KeepItemMut(item, status, skip_existing, required_only) ==
    /\ required_only => item.required
    /\ item.source # "bundled"

\* download_items: whether the filter keeps the item in download_list.
KeepItem(item, status, skip_existing, required_only) ==
    /\ required_only => item.required
    /\ item.source # "bundled"
    /\ ~(skip_existing /\ status.present /\ ~status.needs_download)

DownloadListMut(m, existing, skip_existing, required_only) == <<>>

\* download_items: download_list, as places in the manifest, in list order.
DownloadList(m, existing, skip_existing, required_only) ==
    SelectSeq([i \in Idx |-> i],
              LAMBDA i : KeepItem(m[i], existing[i], skip_existing, required_only))

DryRunMut(opts) == FALSE

\* download_items: `if dry_run:`
DryRun(opts) == opts.dry_run

\* The dry-run report reads item['path'] of every listed item.
DryRunRaise(m, list) ==
    IF \E k \in 1..Len(list) : ~m[list[k]].haspath
    THEN Raised("keyerror", 0, Exc("KeyError", <<"path">>, FALSE), <<"path">>)
    ELSE NoRaise

\* `"401" in str(e) or "403" in str(e) or "HF_TOKEN" in str(e)`
IsAuthError(msg) ==
    \/ Contains(msg, <<"4", "0", "1">>)
    \/ Contains(msg, <<"4", "0", "3">>)
    \/ Contains(msg, <<"HF_TOKEN">>)

HandleFailureMut(item, i, exc) ==
    IF IsAuthError(exc.msg)
    THEN Raised("auth", i, exc, exc.msg)
    ELSE Raised("required", i, exc,
                <<"Failed to download required item ", item.name, ": ">> \o exc.msg)

\* The except clause of _download_sequential and of _download_parallel:
\* what it raises for the failure exc of item i (via "none": it only logs).
HandleFailure(item, i, exc) ==
    IF IsAuthError(exc.msg)
    THEN Raised("auth", i, exc, exc.msg)
    ELSE IF item.required
    THEN Raised("required", i, exc,
                <<"Failed to download required item ", item.name, ": ">> \o exc.msg)
    ELSE NoRaise

Repeat(x, n) == [k \in 1..n |-> x]

\* How HEAD compares with the commit ls-remote reports, when the acquirer
\* gets to compare them.
Probe(item, fsv, env) ==
    IF item.source = "git" /\ fsv.kind = "dir" /\ fsv.head # 0
       /\ env.revparse = "ok" /\ env.lsremote = "ok"
    THEN (IF fsv.head = env.remote THEN "same" ELSE "differ")
    ELSE "none"

NoWire == [range |-> -1, served |-> <<>>, got |-> <<>>]

\* What went over the wire in a URL download: the offset of the Range
\* header (-1: none), the content the server had, the bytes received.
Wire(item, pv, resume, env) ==
    IF item.source = "url"
    THEN LET x == UrlExchange(pv, resume, env)
         IN  [range |-> x.range, served |-> x.served, got |-> x.got]
    ELSE NoWire

IdleRun ==
    [phase |-> "idle", n |-> 0, opts |-> Opts(FALSE, FALSE, FALSE, FALSE, FALSE),
     list |-> <<>>, pos |-> 0, attempted |-> {}, failures |-> {}, transferred |-> {},
     raised |-> NoRaise, d0 |-> 0, s0 |-> 0, fresh |-> FALSE, last |-> 0,
     tree0 |-> [i \in Idx |-> Absent]]

\* Manifests with one item to acquire: the others are bundled.
SingleManifests ==
    { m \in Manifests : \A i \in Idx : i > 1 => (m[i].source = "bundled" /\ ~m[i].required) }

\* Manifests for the dispatch of several items: downloads, copies and
\* package installs.
PoolManifests ==
    { m \in Manifests :
        \A i \in Idx : /\ m[i].source \in {"url", "local", "pip"}
                       /\ m[i].type \in {"model", "file", "pip_package"}
                       /\ m[i].source = "url" => m[i].type = "model" }

\* Declared paths, some of which flatten to the same partial file name
\* (m/a_b and m_a/b).
StorePaths ==
    << <<"m", "/", "a", "_", "b">>, <<"m", "_", "a", "/", "b">>,
       <<"m", "/", "c">>, <<"m", "\\", "a", "_", "b">> >>

\* Manifests of url-sourced model items with distinct declared paths.
StoreManifests ==
    { [i \in Idx |->
          [Item(i, CHOOSE k \in Kinds : k.source = "url" /\ k.type = "model", rs[i])
              EXCEPT !.path = StorePaths[ps[i]]]] :
        ps \in { f \in [Idx -> 1..Len(StorePaths)] : \A i, j \in Idx : i # j => f[i] # f[j] },
        rs \in [Idx -> BOOLEAN] }

\* Where an entry point is: which one it is (point), the call it makes
\* next (pc), how many download_items calls it has made and seen the end of
\* (attempt), whether load_manifest and validate_manifest have returned,
\* the error that ended it, and process_manifest's custom_nodes_installed
\* with whether it was assigned since __init__.
Entry(p, c, a, l, v, e) ==
    [point |-> p, pc |-> c, attempt |-> a, loaded |-> l, validated |-> v, exc |-> e,
     custom_nodes_installed |-> FALSE, assigned |-> FALSE]

\* A call of _verify_checksum(file_path, expected_sha256) put to the test:
\* what is at file_path, the expected digest, whether the call was made
\* on them and what it returned, whether the expected digest was computed
\* from the file, and how many bytes of the file were changed since.
Verdict(f, e, k, r, o, c) ==
    [file |-> f, expected |-> e, called |-> k, result |-> r, own |-> o, changed |-> c]

NoVerdict == Verdict(Absent, NoSha, FALSE, FALSE, FALSE, 0)

\* The handler is driven directly, with the manifest loaded.
NoEntry == Entry("none", "none", 0, TRUE, TRUE, NoExc)

\* The engine after ManifestHandler.__init__ and load_manifest.
InitEngine(manifests, trees, resumes, workers, calls_left) ==
    /\ manifest \in manifests
    /\ resume_downloads \in resumes
    /\ max_workers \in workers
    /\ fs \in [Idx -> trees]
    /\ \A i \in Idx : fs[i] \in InitialAt(manifest[i])
    /\ partial = [i \in Idx |-> Absent]
    /\ file_status_cache = [set |-> FALSE, st |-> [i \in Idx |-> NoStatus]]
    /\ downloaded_items = <<>>
    /\ skipped_items = <<>>
    /\ run = IdleRun
    /\ tasks = [i \in Idx |-> NoTask]
    /\ calls = <<>>
    /\ probe = "none"
    /\ wire = NoWire
    /\ temp_download_dir = FALSE
    /\ prev = IdleRun
    /\ budget = calls_left

\* The state after ManifestHandler.__init__ and load_manifest, the handler
\* being driven directly.
InitWith(manifests, trees, resumes, workers, calls_left) ==
    /\ InitEngine(manifests, trees, resumes, workers, calls_left)
    /\ doc = DocOf(manifest)
    /\ entry = NoEntry
    /\ verdict = NoVerdict
    /\ pip = NoPip

Trees == {Absent, File(GoodData), File(BadData), Dir(0), Dir(1)}

\* One item, any tree, one download_items call.
Init == InitWith(SingleManifests, Trees, BOOLEAN, {1}, 1)

\* Several items on an empty tree, one download_items call.
InitPool == InitWith(PoolManifests, {Absent}, {TRUE}, 1..MaxWorkers, 1)

\* Several url items on an empty tree, one download_items call.
InitStore == InitWith(StoreManifests, {Absent}, {TRUE}, 1..MaxWorkers, 1)

\* Manifests for repeated calls: one item, a repository pinned to a tag or
\* a hub file with a declared checksum when it is of these sources.
RerunManifests ==
    { m \in SingleManifests :
        /\ m[1].source = "git" => m[1].ref = "v1"
        /\ m[1].source = "huggingface" => Checksum(m[1]) # NoSha }

\* One item, any tree, MaxRuns download_items calls.
InitRerun == InitWith(RerunManifests, Trees, {TRUE}, {1}, MaxRuns)

MemoizedMut(cache, force_recheck) == FALSE

\* check_existing_files: `self._file_status_cache is not None and not
\* force_recheck`, the map is returned as it was stored.
Memoized(cache, force_recheck) == cache.set /\ ~force_recheck

\* check_existing_files(force_recheck), called on its own (as print_summary
\* does through get_download_summary).
CheckExistingFiles(force_recheck) ==
    /\ run.phase = "idle"
    /\ IF Memoized(file_status_cache, force_recheck)
       THEN UNCHANGED file_status_cache
       ELSE file_status_cache' =
                [set |-> TRUE, st |-> ComputeStatus(manifest, fs, partial, resume_downloads)]
    /\ UNCHANGED outer
    /\ UNCHANGED <<manifest, resume_downloads, max_workers, fs, partial, downloaded_items,
                   skipped_items, run, tasks, calls, probe, wire, temp_download_dir, prev, budget>>

\* download_items up to the dispatch: the status map, the filter, the dry
\* run, the choice of sequential or parallel dispatch.
DownloadItems(opts) ==
    /\ run.phase = "idle"
    /\ budget > 0
    /\ entry.pc = "none" \/ (entry.pc = "download" /\ entry.attempt = run.n)
    /\ LET recompute == opts.skip_existing /\ ~Memoized(file_status_cache, FALSE)
           cache == IF recompute
                    THEN [set |-> TRUE,
                          st |-> ComputeStatus(manifest, fs, partial, resume_downloads)]
                    ELSE file_status_cache
           existing == IF opts.skip_existing THEN cache.st ELSE [i \in Idx |-> NoStatus]
           list == DownloadList(manifest, existing, opts.skip_existing, opts.required_only)
           started == [IdleRun EXCEPT !.n = run.n + 1, !.opts = opts, !.list = list,
                                      !.d0 = Len(downloaded_items),
                                      !.s0 = Len(skipped_items), !.fresh = recompute,
                                      !.tree0 = fs]
       IN  /\ file_status_cache' = cache
           /\ IF DryRun(opts)
              THEN /\ run' = [started EXCEPT !.raised = DryRunRaise(manifest, list)]
                   /\ tasks' = [i \in Idx |-> NoTask]
              ELSE IF opts.parallel /\ Len(list) > 1
              THEN /\ run' = [started EXCEPT !.phase = "par"]
                   /\ tasks' = [i \in Idx |->
                                  IF \E k \in 1..Len(list) : list[k] = i
                                  THEN [NoTask EXCEPT !.st = "pending"] ELSE NoTask]
              ELSE /\ run' = [started EXCEPT !.phase = IF list = <<>> THEN "idle" ELSE "seq",
                                             !.pos = 1]
                   /\ tasks' = [i \in Idx |-> NoTask]
    /\ budget' = budget - 1
    /\ prev' = run
    /\ calls' = <<>>
    /\ probe' = "none"
    /\ wire' = NoWire
    /\ UNCHANGED temp_download_dir
    /\ UNCHANGED outer
    /\ UNCHANGED <<manifest, resume_downloads, max_workers, fs, partial, downloaded_items,
                   skipped_items>>

\* One call of _download_item for item i in environment env: its effects on
\* the tree, the partial store and the two result lists.
Acquire(i, env, r) ==
    /\ fs' = [fs EXCEPT ![i] = r.fs]
    /\ partial' = [partial EXCEPT ![Slot(manifest, i)] = r.partial]
    /\ downloaded_items' = downloaded_items \o Repeat(i, r.dl)
    /\ skipped_items' = skipped_items \o Repeat(i, r.sk)
    /\ calls' = r.calls
    /\ probe' = Probe(manifest[i], fs[i], env)
    /\ wire' = Wire(manifest[i], partial[Slot(manifest, i)], resume_downloads, env)
    /\ temp_download_dir' = TempDirAfter(manifest[i], temp_download_dir, env)

\* The bookkeeping of a run after _download_item(i) gave result r.
Noted(i, r) ==
    [run EXCEPT !.attempted = @ \cup {i},
                !.failures = IF r.exc = NoExc THEN @ ELSE @ \cup {[item |-> i, exc |-> r.exc]},
                !.transferred = IF r.transferred THEN @ \cup {i} ELSE @,
                !.last = i]

LoopOverMut(raised, pos, list) == pos = Len(list)

\* _download_sequential: the `for` loop is left by the raise of the except
\* clause or after the last item of download_list.
LoopOver(raised, pos, list) == raised # NoRaise \/ pos = Len(list)

\* _download_sequential: one turn of its loop.
SequentialStep ==
    /\ run.phase = "seq"
    /\ LET i == run.list[run.pos]
       IN  \E env \in EnvsFor(manifest[i], fs[i]) :
             LET r == _download_item(manifest[i], fs[i], partial[Slot(manifest, i)],
                                     run.opts.verify_checksums, resume_downloads, env)
                 raised == IF r.exc = NoExc THEN NoRaise
                           ELSE HandleFailure(manifest[i], i, r.exc)
                 over == LoopOver(raised, run.pos, run.list)
             IN  /\ Acquire(i, env, r)
                 /\ run' = [Noted(i, r) EXCEPT !.raised = raised,
                                               !.pos = @ + 1,
                                               !.phase = IF over THEN "idle" ELSE "seq"]
    /\ UNCHANGED outer
    /\ UNCHANGED <<manifest, resume_downloads, max_workers, file_status_cache, tasks, prev,
                   budget>>

\* Item j's task is running a download that writes the partial file item
\* i's download writes.
Clash(i, j) ==
    /\ j # i
    /\ tasks[j].st = "running"
    /\ resume_downloads
    /\ manifest[i].source = "url"
    /\ manifest[j].source = "url"
    /\ Slot(manifest, i) = Slot(manifest, j)

\* What a download that shared its partial file with a running one can
\* come to, besides what it would have done alone: the file was moved away
\* by the other task before this one's move, or the moved file holds the
\* chunks of both.
RaceResults(item, fsv, pv, verify_checksum, r) ==
    { r,
      Result(fsv, Absent, 0, 0, <<>>,
             Exc("FileNotFoundError",
                 <<"No such file or directory: ">> \o _get_partial_path(item.path), FALSE),
             FALSE),
      IF verify_checksum /\ item.type = "model" /\ Checksum(item) # NoSha
      THEN Result(File(Garbled), Absent, 0, 0, <<>>,
                  Exc("Exception", <<"Checksum mismatch for ", item.name>>, FALSE), FALSE)
      ELSE Result(File(Garbled), Absent, 0, 0, <<>>, NoExc, TRUE) }

\* The worker pool starts the next queued task: tasks start in the order
\* they were submitted, while fewer than max_workers are running.  A task
\* still queued after shutdown(wait=False) would start too.
TaskStart(i) ==
    /\ run.phase \in {"par", "aborting"}
    /\ tasks[i].st = "pending"
    /\ \A j \in Idx : tasks[j].st = "pending" => i <= j
    /\ Cardinality({ j \in Idx : tasks[j].st = "running" }) < max_workers
    /\ tasks' = [j \in Idx |->
                    IF j = i THEN [tasks[j] EXCEPT !.st = "running",
                                                   !.raced = \E k \in Idx : Clash(i, k)]
                    ELSE IF Clash(i, j) THEN [tasks[j] EXCEPT !.raced = TRUE]
                    ELSE tasks[j]]
    /\ UNCHANGED outer
    /\ UNCHANGED <<manifest, resume_downloads, max_workers, fs, partial, file_status_cache,
                   downloaded_items, skipped_items, run, calls, probe, wire, temp_download_dir, prev, budget>>

\* A worker runs _download_item for its task to the end; the future holds
\* the exception, if any.  Running tasks also finish after the main thread
\* has decided to raise (shutdown(wait=False) stops no running task).
TaskFinish(i) ==
    /\ run.phase \in {"par", "aborting"}
    /\ tasks[i].st = "running"
    /\ \E env \in EnvsFor(manifest[i], fs[i]) :
         LET alone == _download_item(manifest[i], fs[i], partial[Slot(manifest, i)],
                                     run.opts.verify_checksums, resume_downloads, env)
         IN  \E r \in IF tasks[i].raced
                       THEN RaceResults(manifest[i], fs[i], partial[Slot(manifest, i)],
                                        run.opts.verify_checksums, alone)
                       ELSE {alone} :
                /\ Acquire(i, env, r)
                /\ run' = Noted(i, r)
                /\ tasks' = [tasks EXCEPT ![i].st = IF r.exc = NoExc THEN "ok" ELSE "failed",
                                          ![i].exc = r.exc]
    /\ UNCHANGED outer
    /\ UNCHANGED <<manifest, resume_downloads, max_workers, file_status_cache, prev, budget>>

CancelPendingMut(ts) == ts

\* executor.shutdown(wait=False, cancel_futures=True)
CancelPending(ts) ==
    [j \in Idx |-> IF ts[j].st = "pending" THEN [ts[j] EXCEPT !.st = "cancelled"] ELSE ts[j]]

\* _download_parallel: one turn of the as_completed loop, for a future
\* that is done.
Collect(i) ==
    /\ run.phase = "par"
    /\ tasks[i].st \in {"ok", "failed"}
    /\ ~tasks[i].seen
    /\ LET raised == IF tasks[i].st = "ok" THEN NoRaise
                     ELSE HandleFailure(manifest[i], i, tasks[i].exc)
           seen == [tasks EXCEPT ![i].seen = TRUE]
       IN  IF raised = NoRaise
           THEN /\ tasks' = seen
                /\ UNCHANGED run
           ELSE /\ tasks' = CancelPending(seen)
                /\ run' = [run EXCEPT !.raised = raised, !.phase = "aborting"]
    /\ UNCHANGED outer
    /\ UNCHANGED <<manifest, resume_downloads, max_workers, fs, partial, file_status_cache,
                   downloaded_items, skipped_items, calls, probe, wire, temp_download_dir, prev, budget>>

JoinedMut(ts) == TRUE

\* ThreadPoolExecutor.__exit__: shutdown(wait=True) has joined the workers,
\* no task is queued or running.
Joined(ts) == \A j \in Idx : ts[j].st \notin {"pending", "running"}

\* The end of `with ThreadPoolExecutor(...)`: shutdown(wait=True) returns
\* once no task is queued or running; download_items returns or the error
\* leaves it.
ExecutorExit ==
    /\ \/ /\ run.phase = "par"
          /\ \A j \in Idx : tasks[j].st # "none" => tasks[j].seen
       \/ /\ run.phase = "aborting"
          /\ Joined(tasks)
    /\ run' = [run EXCEPT !.phase = "idle"]
    /\ UNCHANGED outer
    /\ UNCHANGED <<manifest, resume_downloads, max_workers, fs, partial, file_status_cache,
                   downloaded_items, skipped_items, tasks, calls, probe, wire, temp_download_dir, prev, budget>>

\* A new process builds a new handler on the same tree: __init__ and
\* load_manifest.
NewHandler ==
    /\ run.phase = "idle"
    /\ run.n > 0
    /\ budget > 0
    /\ file_status_cache' = [set |-> FALSE, st |-> [i \in Idx |-> NoStatus]]
    /\ downloaded_items' = <<>>
    /\ skipped_items' = <<>>
    /\ run' = [run EXCEPT !.fresh = FALSE]
    /\ UNCHANGED outer
    /\ UNCHANGED <<manifest, resume_downloads, max_workers, fs, partial, tasks, calls,
                   probe, wire, temp_download_dir, prev, budget>>

Next ==
    \/ \E force_recheck \in BOOLEAN : CheckExistingFiles(force_recheck)
    \/ \E opts \in AllOpts : DownloadItems(opts)
    \/ SequentialStep

Spec == Init /\ [][Next]_vars

\* The default call, sequential or parallel.
PoolOpts == { o \in AllOpts : ~o.skip_existing /\ ~o.required_only /\ o.verify_checksums /\ ~o.dry_run }

NextPool ==
    \/ \E opts \in PoolOpts : DownloadItems(opts)
    \/ SequentialStep
    \/ \E i \in Idx : TaskStart(i)
    \/ \E i \in Idx : TaskFinish(i)
    \/ \E i \in Idx : Collect(i)
    \/ ExecutorExit

SpecPool == InitPool /\ [][NextPool]_vars

SpecStore == InitStore /\ [][NextPool]_vars

\* Calls with and without skip_existing and verify_checksums.
RerunOpts == { o \in AllOpts : ~o.required_only /\ ~o.dry_run /\ o.parallel /\ o.skip_existing }

NextRerun ==
    \/ \E opts \in RerunOpts : DownloadItems(opts)
    \/ SequentialStep
    \/ NewHandler

SpecRerun == InitRerun /\ [][NextRerun]_vars

\* ------------------------------------------------------------ entry points

\* The three callers of the handler: the command line (__main__ of
\* manifest_handler.py), ManifestIntegration.process_manifest and the
\* installer GUI's worker thread.
EntryPoints == {"main", "integration", "gui"}

\* What the engine holds: everything but the manifest file and the entry
\* point's position.
engine == <<manifest, resume_downloads, max_workers, fs, partial, file_status_cache,
            downloaded_items, skipped_items, run, tasks, calls, probe, wire, temp_download_dir, prev, budget>>

\* The arguments each entry point passes to download_items.
EntryOpts(point) ==
    CASE point = "main" ->
            { Opts(se, FALSE, TRUE, dr, pa) : se \in BOOLEAN, dr \in BOOLEAN, pa \in BOOLEAN }
      [] point = "integration" -> { Opts(TRUE, FALSE, TRUE, FALSE, pa) : pa \in BOOLEAN }
      [] OTHER -> { Opts(se, ro, TRUE, FALSE, TRUE) : se \in BOOLEAN, ro \in BOOLEAN }

\* handler = ManifestHandler(...) in an entry point, on a manifest file and
\* an empty tree.
InitEntry ==
    /\ doc \in Docs
    /\ manifest = ManifestOf(doc)
    /\ resume_downloads = TRUE
    /\ max_workers = 1
    /\ fs = [i \in Idx |-> Absent]
    /\ partial = [i \in Idx |-> Absent]
    /\ file_status_cache = [set |-> FALSE, st |-> [i \in Idx |-> NoStatus]]
    /\ downloaded_items = <<>>
    /\ skipped_items = <<>>
    /\ run = IdleRun
    /\ tasks = [i \in Idx |-> NoTask]
    /\ calls = <<>>
    /\ probe = "none"
    /\ wire = NoWire
    /\ temp_download_dir = FALSE
    /\ prev = IdleRun
    /\ budget = MaxRuns
    /\ \E p \in EntryPoints : entry = Entry(p, "load", 0, FALSE, FALSE, NoExc)
    /\ verdict = NoVerdict
    /\ pip = NoPip

\* handler.load_manifest()
LoadManifest ==
    /\ entry.pc = "load"
    /\ entry' = IF doc.exists
                THEN [entry EXCEPT !.pc = "validate", !.loaded = TRUE]
                ELSE [entry EXCEPT !.pc = "failed",
                                   !.exc = Exc("FileNotFoundError", <<"Manifest not found: ">>,
                                               FALSE)]
    /\ UNCHANGED <<doc, verdict, pip, engine>>

RejectedMut(exc) == FALSE

\* Whether validate_manifest left by an exception.
Rejected(exc) == exc # NoExc

\* handler.validate_manifest(): the error leaves the entry point's try
\* block (or the process), the calls after it are not made.
ValidateManifest ==
    /\ entry.pc = "validate"
    /\ LET e == validate_manifest(doc)
       IN  entry' = IF Rejected(e)
                    THEN [entry EXCEPT !.pc = "failed", !.exc = e]
                    ELSE [entry EXCEPT !.pc = "summary", !.validated = TRUE]
    /\ UNCHANGED <<doc, verdict, pip, engine>>

\* handler.print_summary() of the command line and of process_manifest: it
\* calls check_existing_files().  The GUI worker goes on to download_items.
PrintSummary ==
    /\ entry.pc = "summary"
    /\ file_status_cache' =
          IF entry.point = "gui" \/ Memoized(file_status_cache, FALSE)
          THEN file_status_cache
          ELSE [set |-> TRUE, st |-> ComputeStatus(manifest, fs, partial, resume_downloads)]
    /\ entry' = [entry EXCEPT !.pc = "download"]
    /\ UNCHANGED <<doc, verdict, pip, manifest, resume_downloads, max_workers, fs, partial,
                   downloaded_items, skipped_items, run, tasks, calls, probe, wire, temp_download_dir, prev, budget>>

\* process_manifest: `max_retries = 3`
max_retries == 3

LoopGoesOnMut(attempt) == TRUE

\* process_manifest: `while attempt < max_retries`
LoopGoesOn(attempt) == attempt < max_retries

\* ManifestHandler.custom_nodes_were_downloaded
custom_nodes_were_downloaded ==
    \E k \in 1..Len(downloaded_items) :
        LET item == manifest[downloaded_items[k]]
        IN  \/ item.type = "custom_node"
            \/ Contains(Lower(item.path), <<"custom_nodes">>)

\* download_items has returned or raised.  process_manifest calls it again
\* after an authentication-class error when the dialog gave a token
\* (retry) and the loop goes on; every other error ends the entry point,
\* and so does the end of the loop.  After a call that returned,
\* process_manifest assigns custom_nodes_installed.
DownloadReturns(retry) ==
    /\ entry.pc = "download"
    /\ run.phase = "idle"
    /\ run.n > entry.attempt
    /\ retry => /\ entry.point = "integration"
                /\ run.raised # NoRaise
                /\ IsAuthError(run.raised.msg)
                /\ budget > 0
    /\ LET ok == run.raised = NoRaise
           flag == ok /\ entry.point = "integration"
       IN  entry' = [entry EXCEPT
                        !.attempt = run.n,
                        !.pc = IF ok THEN "done"
                               ELSE IF retry /\ LoopGoesOn(run.n) THEN "download"
                               ELSE "failed",
                        !.exc = IF retry THEN NoExc ELSE run.raised.exc,
                        !.assigned = flag,
                        !.custom_nodes_installed =
                            flag /\ custom_nodes_were_downloaded]
    /\ UNCHANGED <<doc, verdict, pip, engine>>

NextEntry ==
    \/ LoadManifest
    \/ ValidateManifest
    \/ PrintSummary
    \/ \E opts \in EntryOpts(entry.point) : DownloadItems(opts)
    \/ SequentialStep
    \/ \E i \in Idx : TaskStart(i)
    \/ \E i \in Idx : TaskFinish(i)
    \/ \E i \in Idx : Collect(i)
    \/ ExecutorExit
    \/ \E retry \in BOOLEAN : DownloadReturns(retry)

SpecEntry == InitEntry /\ [][NextEntry]_vars

\* ------------------------------------------------------ token-retry loop

\* Manifests with one item that an authentication-class error can stop (a
\* url item) or that counts as a custom node (a repository).
RetryManifests ==
    { m \in RerunManifests : m[1].source \in {"url", "git"} }

\* process_manifest after load_manifest and validate_manifest, on an empty
\* tree, with room for one download_items call more than the loop allows.
InitRetry ==
    /\ InitEngine(RetryManifests, {Absent}, {TRUE}, {1}, max_retries + 1)
    /\ doc = DocOf(manifest)
    /\ entry = Entry("integration", "summary", 0, TRUE, TRUE, NoExc)
    /\ verdict = NoVerdict
    /\ pip = NoPip

NextRetry ==
    \/ PrintSummary
    \/ \E opts \in EntryOpts("integration") : DownloadItems(opts)
    \/ SequentialStep
    \/ \E retry \in BOOLEAN : DownloadReturns(retry)

\* Every call made returns and the dialog is answered.
SpecRetry == InitRetry /\ [][NextRetry]_vars /\ WF_vars(NextRetry)

\* ------------------------------------------------------- checksum verifier

\* Largest file the verifier is tried on, in bytes.
MaxBytes == 2

Bytes == {1, 2, 3}

\* The byte sequences of at most n bytes.
RECURSIVE Datas(_)
Datas(n) ==
    IF n = 0 THEN {<<>>}
    ELSE Datas(n - 1)
            \cup { Append(d, b) : d \in { x \in Datas(n - 1) : Len(x) = n - 1 }, b \in Bytes }

\* A path with nothing or with a file at it, and a digest: one that some
\* content has.
InitVerify ==
    /\ InitEngine({ m \in SingleManifests : m[1].source = "bundled" /\ ~m[1].required },
                  {Absent}, {TRUE}, {1}, 0)
    /\ doc = DocOf(manifest)
    /\ entry = NoEntry
    /\ \E f \in {Absent} \cup { File(d) : d \in Datas(MaxBytes) }, d \in Datas(MaxBytes) :
          verdict = Verdict(f, Sha256(d), FALSE, FALSE, FALSE, 0)
    /\ pip = NoPip

\* hashlib.sha256 over the file as it is: the digest to expect of it.
ComputeDigest ==
    /\ verdict.file.kind = "file"
    /\ verdict.changed = 0
    /\ ~verdict.own
    /\ verdict' = [verdict EXCEPT !.expected = Sha256(verdict.file.data), !.own = TRUE,
                                  !.called = FALSE, !.result = FALSE]
    /\ UNCHANGED <<doc, entry, pip, engine>>

\* self._verify_checksum(file_path, expected_sha256)
VerifyChecksum ==
    /\ verdict' = [verdict EXCEPT !.called = TRUE,
                                  !.result = _verify_checksum(verdict.file, verdict.expected)]
    /\ UNCHANGED <<doc, entry, pip, engine>>

\* Byte k of the file is overwritten by another value.
CorruptByte(k, b) ==
    /\ verdict.file.kind = "file"
    /\ verdict.changed = 0
    /\ k \in 1..Len(verdict.file.data)
    /\ b # verdict.file.data[k]
    /\ verdict' = [verdict EXCEPT !.file.data[k] = b, !.changed = 1, !.called = FALSE,
                                  !.result = FALSE]
    /\ UNCHANGED <<doc, entry, pip, engine>>

NextVerify ==
    \/ ComputeDigest
    \/ VerifyChecksum
    \/ \E k \in 1..MaxBytes, b \in Bytes : CorruptByte(k, b)

SpecVerify == InitVerify /\ [][NextVerify]_vars

\* --------------------------------------------------------------- pip runner

\* Largest max_retries the runner is tried with.
MaxTries == 4

RECURSIVE Pow(_, _)
Pow(b, n) == IF n = 0 THEN 1 ELSE b * Pow(b, n - 1)

\* Delays are counted in 1/2^MaxTries of a second, so that `retry_delay *=
\* 1.5` is exact.
Seconds(n) == n * Pow(2, MaxTries)

PipArgs ==
    { <<"install", "-r", "requirements.txt">>,
      <<"install", "pkg">>,
      <<"install", "pkg", "--no-warn-script-location">> }

\* A call of the runner with max_retries from 1 up (default 3) and a
\* retry_delay of 1 or 2 seconds (default 2.0).
InitPip ==
    /\ InitEngine({ m \in SingleManifests : m[1].source = "bundled" /\ ~m[1].required },
                  {Absent}, {TRUE}, {1}, 0)
    /\ doc = DocOf(manifest)
    /\ entry = NoEntry
    /\ verdict = NoVerdict
    /\ \E a \in PipArgs, m \in 1..MaxTries, d \in {Seconds(1), Seconds(2)} :
          pip = PipStart(a, m, d)

\* One iteration of the runner's loop.
PipAttempt ==
    /\ pip.pc = "loop"
    /\ \E o \in RunOutcomes : pip' = PipIteration(pip, o)
    /\ UNCHANGED <<doc, entry, verdict, engine>>

NextPip == PipAttempt

SpecPip == InitPip /\ [][NextPip]_vars

\* ------------------------------------------------------------- properties

Range(seq) == { seq[k] : k \in 1..Len(seq) }

\* What the call in `run` appended to downloaded_items and to skipped_items.
DownloadedInRun == Range(SubSeq(downloaded_items, run.d0 + 1, Len(downloaded_items)))

SkippedInRun == Range(SubSeq(skipped_items, run.s0 + 1, Len(skipped_items)))

\* A download_items call has returned or raised (not a dry run).
Returned == run.phase = "idle" /\ run.n > 0 /\ ~run.opts.dry_run

\* The sources download_items attempts on every run.
AlwaysAttempted == {"install_temp", "pip", "winget"}

\* The call in `run` is a skip_existing call that follows a skip_existing
\* call in which every attempted acquisition succeeded.
SecondRun ==
    /\ run.phase = "idle"
    /\ run.n >= 2
    /\ run.opts.skip_existing
    /\ prev.opts.skip_existing
    /\ prev.raised = NoRaise
    /\ prev.failures = {}

\* The file at item i's path when the call in `run` began matches the
\* checksum the item declares, or the item declares none.
MatchedAtStart(i) ==
    \/ Checksum(manifest[i]) = NoSha
    \/ _verify_checksum(run.tree0[i], Checksum(manifest[i]))

\* C1 as stated: on the second of two skip_existing runs, the first of
\* which succeeded, only install_temp, pip and winget items are attempted,
\* and every other item with a status has needs_download = false.
C1_Stated ==
    SecondRun =>
        \A i \in Idx :
            manifest[i].source \notin AlwaysAttempted =>
                /\ i \notin run.attempted
                /\ manifest[i].source # "bundled" =>
                      /\ file_status_cache.st[i].present
                      /\ ~file_status_cache.st[i].needs_download

\* C1: on the second of two skip_existing runs, the first of which
\* succeeded, when the second run computes the file status afresh, every
\* item that is not install_temp, pip or winget and whose file matched its
\* declared checksum (or that declares none) is not attempted and has
\* needs_download = false; bundled items are never attempted.
C1_Idempotent ==
    (SecondRun /\ run.fresh) =>
        \A i \in Idx :
            /\ manifest[i].source = "bundled" => i \notin run.attempted
            /\ (manifest[i].source \notin AlwaysAttempted \cup {"bundled"} /\ MatchedAtStart(i)) =>
                  /\ i \notin run.attempted
                  /\ file_status_cache.st[i].present
                  /\ ~file_status_cache.st[i].needs_download

\* A second run by a new handler that had nothing to do for a url item the
\* first run downloaded.
C1_Witness ==
    /\ SecondRun
    /\ run.fresh
    /\ manifest[1].source = "url"
    /\ 1 \in prev.attempted
    /\ MatchedAtStart(1)
    /\ run.list = <<>>

\* The step computes the file status map anew.
StatusComputed == file_status_cache'.set /\ file_status_cache' # file_status_cache

\* What check_existing_files reports for item i against tree: present with
\* needs_download = false exactly when the file exists with the declared digest.
ReportsDigest(st, item, fsv) ==
    (st.present /\ ~st.needs_download)
        <=> (fsv.kind # "absent" /\ Sha256(fsv.data) = Checksum(item))

C3_DryRunFrame ==
    [][(run'.n > 0 /\ run'.opts.dry_run) =>
          /\ fs' = fs
          /\ partial' = partial
          /\ downloaded_items' = downloaded_items
          /\ skipped_items' = skipped_items
          /\ run'.attempted = {}
          /\ run'.phase = "idle"]_vars

\* A dry run over a non-empty work list, on a tree that holds a file.
C3_Witness ==
    /\ run.n > 0
    /\ run.opts.dry_run
    /\ run.list # <<>>
    /\ \E i \in Idx : fs[i].kind = "file"

\* C4 as stated: every item whose transfer completed during the call is in
\* downloaded_items.
C4_Stated ==
    \A i \in run.transferred : i \in DownloadedInRun

\* An item the restart signal is about: type custom_node, or a path that
\* holds custom_nodes.
IsCustomNode(item) ==
    \/ item.type = "custom_node"
    \/ Contains(Lower(item.path), <<"custom_nodes">>)

\* C5 as stated: the restart signal is true iff downloaded_items holds a
\* custom-node item, and after a call that acquired such an item, from
\* whatever source, it is true.
C5_Stated ==
    /\ custom_nodes_were_downloaded
          <=> (\E i \in Range(downloaded_items) : IsCustomNode(manifest[i]))
    /\ Returned =>
          ((\E i \in run.transferred : IsCustomNode(manifest[i]))
              => custom_nodes_were_downloaded)

\* C6 as stated: once a call is over, an authorization failure of any of
\* its items has made it raise; and the call is only aborted as an
\* authentication failure by a failure that is an authorization failure.
C6_Stated ==
    /\ Returned => \A f \in run.failures : f.exc.auth => run.raised # NoRaise
    /\ run.raised.via = "auth" => run.raised.exc.auth

\* C7: when download_items raises for the failure of a required item, the
\* message names that item and no task is left queued; a call that is over
\* has raised if a required item failed; after the decision to raise no
\* task starts; and the file of an item already attempted is not touched
\* again during the call.
C7_RequiredFailureAborts ==
    /\ [](run.raised.via = "required" =>
            /\ manifest[run.raised.item].required
            /\ Contains(run.raised.msg, <<manifest[run.raised.item].name>>)
            /\ \A j \in Idx : tasks[j].st # "pending")
    /\ [](Returned =>
            \A f \in run.failures :
                (manifest[f.item].required /\ ~IsAuthError(f.exc.msg)) => run.raised # NoRaise)
    /\ [](Returned => \A j \in Idx : tasks[j].st = "cancelled" => j \notin run.attempted)
    /\ [][run.phase = "aborting" =>
            \A j \in Idx : tasks[j].st # "running" => tasks'[j].st # "running"]_vars
    /\ [][run'.n = run.n => \A j \in run.attempted : fs'[j] = fs[j]]_vars

\* A parallel call that raised for a required item and cancelled a task
\* that had not started.
C7_Witness ==
    /\ Returned
    /\ run.opts.parallel
    /\ run.raised.via = "required"
    /\ \E j \in Idx : tasks[j].st = "cancelled"

\* C8: a call all of whose failures are on non-required items and are not
\* authentication-class raises nothing and attempts every item of its work
\* list; a call that raises does so for a required item or for an
\* authentication-class failure.
C8_OptionalFailuresRecovered ==
    Returned =>
        /\ (\A f \in run.failures :
                ~manifest[f.item].required /\ ~IsAuthError(f.exc.msg)) =>
              /\ run.raised = NoRaise
              /\ run.attempted = Range(run.list)
        /\ run.raised # NoRaise =>
              \/ manifest[run.raised.item].required
              \/ IsAuthError(run.raised.exc.msg)

\* A call that returned normally after the first of its items failed and
\* the others were attempted.
C8_Witness ==
    /\ Returned
    /\ run.raised = NoRaise
    /\ \E f \in run.failures : f.item = 1
    /\ run.attempted = Idx

\* C9 as stated: after the call, a non-required item whose acquisition
\* failed is in neither of the lists.
C9_Stated ==
    Returned =>
        \A f \in run.failures :
            ~manifest[f.item].required =>
                /\ f.item \notin Range(downloaded_items)
                /\ f.item \notin Range(skipped_items)

\* The step is one call of _download_item for item i.
AcquiredNow(i) ==
    \/ run.phase = "seq" /\ run'.pos = run.pos + 1 /\ run.list[run.pos] = i
    \/ tasks[i].st = "running" /\ tasks'[i].st \in {"ok", "failed"}

\* C10: a git acquisition that found HEAD equal to the commit the remote
\* reports for the ref runs no fetch, checkout or reset, appends the item
\* to skipped_items and leaves downloaded_items as it was.
C10_SameCommitSkips ==
    [][\A i \in Idx :
          (AcquiredNow(i) /\ manifest[i].source = "git" /\ probe' = "same") =>
              /\ Range(calls') \cap {"fetch", "checkout", "reset"} = {}
              /\ skipped_items' = Append(skipped_items, i)
              /\ downloaded_items' = downloaded_items]_vars

\* A git item found up to date is in skipped_items.
C10_Witness ==
    /\ probe = "same"
    /\ run.last # 0
    /\ manifest[run.last].source = "git"
    /\ run.last \in Range(skipped_items)
    /\ calls = <<"rev-parse", "ls-remote">>

\* Item i is a url-sourced model item that declares a sha256.
UrlModel(i) ==
    /\ manifest[i].source = "url"
    /\ manifest[i].type = "model"
    /\ manifest[i].sha256 # NoSha

\* C11: a verifying run that downloads a url-sourced model item into an
\* empty destination leaves the verified content at the final path and no
\* partial file of the item; the next run, by a handler that computes the
\* status afresh, finds the item exists_and_valid and keeps it out of its
\* work list.
C11_DownloadThenSkip ==
    \A i \in Idx :
        /\ (UrlModel(i) /\ run.n > 0 /\ run.opts.verify_checksums
            /\ run.tree0[i] = Absent /\ i \in run.transferred) =>
              /\ fs[i].kind = "file"
              /\ Sha256(fs[i].data) = manifest[i].sha256
              /\ partial[Slot(manifest, i)] = Absent
        /\ (UrlModel(i) /\ SecondRun /\ run.fresh /\ prev.opts.verify_checksums
            /\ prev.tree0[i] = Absent /\ i \in prev.transferred) =>
              /\ file_status_cache.st[i].reason = "exists_and_valid"
              /\ i \notin Range(run.list)
              /\ i \notin run.attempted
              /\ fs[i] = run.tree0[i]

\* The second run of a url model item that the first run downloaded into
\* an empty tree.
C11_Witness ==
    /\ UrlModel(1)
    /\ SecondRun
    /\ run.fresh
    /\ prev.opts.verify_checksums
    /\ prev.tree0[1] = Absent
    /\ 1 \in prev.transferred
    /\ file_status_cache.st[1].reason = "exists_and_valid"
    /\ fs[1] = File(GoodData)

\* The file at item i's path in tree is there and does not have the digest
\* the item declares.
Corrupted(tree, i) ==
    /\ tree[i].kind = "file"
    /\ ~_verify_checksum(tree[i], Checksum(manifest[i]))

\* C12: a skip_existing call that finds the file of a url-sourced model
\* item corrupted reports checksum_mismatch for it and puts it on its work
\* list (unless required_only drops it); once a verifying call has
\* downloaded the item, a status check of the tree as it is reports
\* exists_and_valid.
C12_CorruptedRedownloaded ==
    /\ [][\A i \in Idx :
            (run'.n = run.n + 1 /\ run'.opts.skip_existing /\ (run'.fresh \/ run.n = 0)
             /\ UrlModel(i) /\ Corrupted(fs, i)) =>
                /\ file_status_cache'.st[i].reason = "checksum_mismatch"
                /\ file_status_cache'.st[i].needs_download
                /\ (run'.opts.required_only => manifest[i].required)
                      => i \in Range(run'.list)]_vars
    /\ [](\A i \in Idx :
            (UrlModel(i) /\ run.n > 0 /\ run.opts.verify_checksums /\ Corrupted(run.tree0, i)
             /\ i \in run.transferred) =>
                /\ ~Corrupted(fs, i)
                /\ ComputeStatus(manifest, fs, partial, resume_downloads)[i].reason
                      = "exists_and_valid")

\* A skip_existing call has replaced the corrupted file of a url model
\* item by the content its checksum was computed from.
C12_Witness ==
    /\ UrlModel(1)
    /\ Returned
    /\ run.opts.skip_existing
    /\ run.opts.verify_checksums
    /\ Corrupted(run.tree0, 1)
    /\ 1 \in run.transferred
    /\ fs[1] = File(GoodData)

\* Item i's acquisition in this step raised nothing.
SucceededNow(i) == AcquiredNow(i) /\ run'.failures = run.failures

\* C13: the acquisition of a git item whose destination exists without a
\* .git entry first removes the destination and then clones (no other
\* subprocess runs before); when it returns without raising, the
\* destination is a checkout with a .git entry and nothing else of what
\* was there.
C13_ForeignFolderReplaced ==
    [][\A i \in Idx :
          (AcquiredNow(i) /\ manifest[i].source = "git"
           /\ fs[i].kind = "dir" /\ fs[i].head = 0) =>
              /\ Len(calls') > 0
              /\ calls'[1] = "rmtree"
              /\ Len(calls') > 1 => calls'[2] = "clone"
              /\ SucceededNow(i) =>
                    /\ Len(calls') > 1
                    /\ fs'[i].kind = "dir"
                    /\ fs'[i].head # 0
                    /\ fs'[i] # fs[i]]_vars

\* A git item cloned over a folder that was no repository.
C13_Witness ==
    /\ Returned
    /\ manifest[1].source = "git"
    /\ run.tree0[1] = Dir(0)
    /\ run.failures = {}
    /\ Len(calls) > 1
    /\ calls[1] = "rmtree"
    /\ fs[1].head # 0

\* The path holds a file as long as a served body: a stream that was
\* written to the end.
Complete(fsv) ==
    /\ fsv.kind = "file"
    /\ \E c \in Contents : Len(fsv.data) = Len(c)

\* C14 as stated: whatever the configuration, an acquisition of a
\* url-sourced item leaves the final path as it was or holding a complete
\* file.
C14_Stated ==
    [][\A i \in Idx :
          (AcquiredNow(i) /\ manifest[i].source = "url") =>
              \/ fs'[i] = fs[i]
              \/ Complete(fs'[i])]_vars

\* C15 as stated: two url downloads that are running at the same time
\* never write the same partial file.
C15_Stated ==
    \A i, j \in Idx :
        (i # j /\ resume_downloads
         /\ tasks[i].st = "running" /\ manifest[i].source = "url"
         /\ tasks[j].st = "running" /\ manifest[j].source = "url"
         /\ manifest[i].path # manifest[j].path) =>
            _get_partial_path(manifest[i].path) # _get_partial_path(manifest[j].path)

\* C16: once a parallel call has decided to raise, no task is queued and
\* none starts; the error it raises is the one it decided on first and
\* does not change; a running task is not cancelled but finishes; and
\* download_items is not over while a task is running.
C16_AbortCancelsAndJoins ==
    /\ [](run.phase = "aborting" =>
            /\ run.raised.via \in {"auth", "required"}
            /\ \A j \in Idx : tasks[j].st # "pending")
    /\ [](run.phase = "idle" => \A j \in Idx : tasks[j].st \notin {"pending", "running"})
    /\ [][run.phase = "aborting" =>
            /\ run'.raised = run.raised
            /\ \A j \in Idx :
                  /\ tasks[j].st = "cancelled" => tasks'[j].st = "cancelled"
                  /\ tasks[j].st = "running" => tasks'[j].st \in {"running", "ok", "failed"}
                  /\ tasks'[j].st = "running" => tasks[j].st = "running"]_vars

\* A parallel call that raised an authentication-class error is over; one
\* of its tasks ran to its end without being collected, another was
\* cancelled or had been collected.
C16_Witness ==
    /\ Returned
    /\ run.opts.parallel
    /\ run.raised.via = "auth"
    /\ \E j \in Idx : tasks[j].st \in {"ok", "failed"} /\ ~tasks[j].seen
    /\ \E j \in Idx : tasks[j].seen

\* C17: in every entry of the status map, needs_download is false iff
\* the reason is exists_and_valid or exists_no_checksum.
C17_ReasonDecidesNeed ==
    file_status_cache.set =>
        \A i \in Idx :
            file_status_cache.st[i].present =>
                (~file_status_cache.st[i].needs_download
                    <=> file_status_cache.st[i].reason
                            \in {"exists_and_valid", "exists_no_checksum"})

\* The status map holds an entry that trusts an existing path without a
\* checksum.
C17_Witness ==
    /\ file_status_cache.set
    /\ file_status_cache.st[1].reason = "exists_no_checksum"
    /\ ~file_status_cache.st[1].needs_download

\* C18: a stored status map changes only in a check_existing_files call
\* made on its own, and then to the map of the tree as it is (the forced
\* recheck); a download_items call that finds a stored map does not look
\* at the tree, leaves the map as it is and filters by it: an item the map
\* reports with needs_download = false is not on the work list of a
\* skip_existing call, one it reports with needs_download = true is
\* (unless required_only drops it).
C18_Memoized ==
    /\ [][(file_status_cache.set /\ file_status_cache' # file_status_cache) =>
            /\ run' = run
            /\ file_status_cache'
                  = [set |-> TRUE,
                     st |-> ComputeStatus(manifest, fs, partial, resume_downloads)]]_vars
    /\ [][(file_status_cache.set /\ run'.n = run.n + 1) =>
            /\ ~run'.fresh
            /\ file_status_cache' = file_status_cache
            /\ run'.opts.skip_existing =>
                  \A i \in Idx :
                      file_status_cache.st[i].present =>
                          /\ ~file_status_cache.st[i].needs_download
                                => i \notin Range(run'.list)
                          /\ (file_status_cache.st[i].needs_download
                              /\ (run'.opts.required_only => manifest[i].required))
                                => i \in Range(run'.list)]_vars

\* A call filtered by the map stored before it, and the map no longer
\* describes the tree the call left.
C18_Witness ==
    /\ Returned
    /\ run.opts.skip_existing
    /\ ~run.fresh
    /\ run.transferred # {}
    /\ file_status_cache.set
    /\ file_status_cache.st # ComputeStatus(manifest, fs, partial, resume_downloads)

\* The acquirer's `raise Exception(f"Checksum mismatch for {item['name']}")`.
IsMismatch(exc) ==
    /\ exc.cls = "Exception"
    /\ Len(exc.msg) > 0
    /\ exc.msg[1] = "Checksum mismatch for "

\* The copy of item i the call acquired does not have the declared digest:
\* the acquirer said so, or it returned normally and the file does not verify.
MismatchedCopy(i) ==
    \/ \E f \in run.failures : f.item = i /\ IsMismatch(f.exc)
    \/ i \in run.transferred /\ Corrupted(fs, i)

\* A download_items call that finds a checksum_mismatch in the status map
\* raises nothing while it filters, and lists the item (unless
\* required_only drops it).
MismatchReclassifies ==
    [][\A i \in Idx :
          (run'.n = run.n + 1 /\ run'.opts.skip_existing /\ ~run'.opts.dry_run
           /\ file_status_cache'.st[i].reason = "checksum_mismatch") =>
              /\ run'.raised = NoRaise
              /\ (run'.opts.required_only => manifest[i].required)
                    => i \in Range(run'.list)]_vars

\* C19 as stated: a mismatch in the status map raises nothing, and a call
\* that acquired a copy of a downloaded item that does not have the
\* declared digest raises.
C19_Stated ==
    /\ MismatchReclassifies
    /\ [](Returned =>
            \A i \in run.attempted :
                (manifest[i].source \in {"url", "huggingface"}
                 /\ Checksum(manifest[i]) # NoSha /\ MismatchedCopy(i)) =>
                    run.raised # NoRaise)

\* C19: a mismatch in the status map raises nothing; a verifying call that
\* attempted a downloaded item of type model with a declared checksum
\* either acquired a copy that has the declared digest or recorded a
\* failure of the item; when that failure is the checksum mismatch, the
\* call raises for the item if it is required and goes on without raising
\* if it is not.
C19_MismatchFatalIfRequired ==
    /\ MismatchReclassifies
    /\ [](Returned =>
            \A i \in run.attempted :
                (manifest[i].source \in {"url", "huggingface"} /\ manifest[i].type = "model"
                 /\ Checksum(manifest[i]) # NoSha /\ run.opts.verify_checksums) =>
                    /\ \/ i \in run.transferred /\ ~Corrupted(fs, i)
                       \/ \E f \in run.failures : f.item = i
                    /\ \A f \in run.failures :
                          (f.item = i /\ IsMismatch(f.exc)) =>
                              /\ Corrupted(fs, i)
                              /\ manifest[i].required =>
                                    run.raised = HandleFailure(manifest[i], i, f.exc)
                                    /\ run.raised.via = "required"
                              /\ (~manifest[i].required /\ run.failures = {f}) =>
                                    run.raised = NoRaise)

\* A skip_existing call found a required model item corrupted, downloaded
\* it again, the new copy did not verify either, and the call raised.
C19_Witness ==
    /\ Returned
    /\ UrlModel(1)
    /\ manifest[1].required
    /\ run.opts.skip_existing
    /\ Corrupted(run.tree0, 1)
    /\ \E f \in run.failures : f.item = 1 /\ IsMismatch(f.exc)
    /\ run.raised.via = "required"

\* C20: the work list of a download_items call holds, once each and in
\* manifest order, exactly the items that are not bundled, that are
\* required when required_only is set, and that the status map does not
\* report with needs_download = false when skip_existing is set; an item
\* reported as checksum_mismatch is kept by the skip_existing filter.
C20_WorkList ==
    [][run'.n = run.n + 1 =>
          LET o == run'.opts
              st == file_status_cache'.st
          IN  /\ Range(run'.list) =
                    { i \in Idx :
                        /\ manifest[i].source # "bundled"
                        /\ o.required_only => manifest[i].required
                        /\ ~(o.skip_existing /\ st[i].present /\ ~st[i].needs_download) }
              /\ \A k \in 1..(Len(run'.list) - 1) : run'.list[k] < run'.list[k + 1]
              /\ \A i \in Idx :
                    (o.skip_existing /\ st[i].reason = "checksum_mismatch"
                     /\ (o.required_only => manifest[i].required)) =>
                        i \in Range(run'.list)]_vars

\* A skip_existing call whose filter dropped the bundled item and the item
\* the status map trusts as it is.
C20_Witness ==
    /\ run.n > 0
    /\ run.opts.skip_existing
    /\ manifest[1].source # "bundled"
    /\ file_status_cache.st[1].reason = "exists_no_checksum"
    /\ \E i \in Idx : manifest[i].source = "bundled"
    /\ run.list = <<>>

\* C21 as stated: in the status map every pip or winget item has
\* needs_download = true with reason <source>_package, and every
\* install_temp item has needs_download = true with reason
\* install_temp_always_copy, whether its destination exists or not.
C21_Stated ==
    file_status_cache.set =>
        \A i \in Idx :
            /\ manifest[i].source \in {"pip", "winget"} =>
                  /\ file_status_cache.st[i].needs_download
                  /\ file_status_cache.st[i].reason
                        = (IF manifest[i].source = "pip" THEN "pip_package"
                           ELSE "winget_package")
            /\ manifest[i].source = "install_temp" =>
                  /\ file_status_cache.st[i].needs_download
                  /\ file_status_cache.st[i].reason = "install_temp_always_copy"

\* The call in `run` was dispatched to _download_sequential.
Sequential ==
    /\ run.n > 0
    /\ ~run.opts.dry_run
    /\ ~(run.opts.parallel /\ Len(run.list) > 1)

\* The failure is one the dispatch routine raises for.
Fatal(f) == IsAuthError(f.exc.msg) \/ manifest[f.item].required

\* C22: a sequential call has attempted exactly the items of its work list
\* before its position, in list order and one per step; no pool task
\* exists; none of the failures before the last attempted item is fatal;
\* the call is over with an error iff the last attempted item failed
\* fatally, and without one only after the whole list; after the error
\* nothing more is attempted in the call.
C22_SequentialInOrder ==
    /\ [](Sequential =>
            /\ run.attempted = { run.list[k] : k \in 1..(run.pos - 1) }
            /\ \A j \in Idx : tasks[j] = NoTask
            /\ \A f \in run.failures :
                  Fatal(f) => (run.pos > 1 /\ f.item = run.list[run.pos - 1])
            /\ run.raised # NoRaise <=> \E f \in run.failures : Fatal(f)
            /\ run.raised # NoRaise => (run.phase = "idle" /\ run.raised.item = run.list[run.pos - 1])
            /\ (run.phase = "idle" /\ run.raised = NoRaise) => run.pos = Len(run.list) + 1)
    /\ [][run.phase = "seq" =>
            /\ run'.pos = run.pos + 1
            /\ run'.attempted = run.attempted \cup {run.list[run.pos]}
            /\ run.list[run.pos] \notin run.attempted
            /\ \A j \in Idx : j # run.list[run.pos] => fs'[j] = fs[j]]_vars
    /\ [][(Sequential /\ run.raised # NoRaise /\ run'.n = run.n) =>
            /\ run'.attempted = run.attempted
            /\ fs' = fs
            /\ downloaded_items' = downloaded_items]_vars

\* A sequential call over two items raised for the first and never
\* attempted the second.
C22_Witness ==
    /\ Returned
    /\ Sequential
    /\ Len(run.list) = 2
    /\ run.raised # NoRaise
    /\ run.raised.item = run.list[1]
    /\ run.attempted = {run.list[1]}

\* The document has one of the flaws validation is to reject: a top-level
\* key is absent, or some item lacks a required field, or declares a type,
\* a source or a path_base outside the supported sets.
Flawed(d) ==
    \/ "package" \notin d.keys
    \/ "items" \notin d.keys
    \/ \E k \in 1..Len(d.items) :
          LET item == d.items[k]
          IN  \/ \E f \in REQUIRED_FIELDS : f \notin item.keys
              \/ "type" \in item.keys /\ item.type \notin SUPPORTED_TYPES
              \/ "source" \in item.keys /\ item.source \notin SUPPORTED_SOURCES
              \/ "path_base" \in item.keys /\ item.path_base \notin SUPPORTED_PATH_BASES

\* C23: validate_manifest on a loaded document raises (a ValueError) iff
\* the package or the items key is absent, or some item lacks name, type
\* or source, or has a type, a source or a path_base that is not
\* supported; otherwise it returns; either way it changes neither the
\* engine's state nor the document.
C23_ValidationRejects ==
    [][entry.pc = "validate" =>
          /\ entry'.pc = (IF Flawed(doc) THEN "failed" ELSE "summary")
          /\ Flawed(doc) <=> entry'.exc.cls = "ValueError"
          /\ ~Flawed(doc) <=> entry'.validated
          /\ UNCHANGED <<doc, engine>>]_vars

\* Validation rejected a document whose only flaw is the path_base of its
\* last item.
C23_Witness ==
    /\ entry.pc = "failed"
    /\ entry.loaded
    /\ entry.exc.cls = "ValueError"
    /\ {"package", "items"} \subseteq doc.keys
    /\ \A k \in 1..(MaxItems - 1) : doc.items[k] = WellFormed
    /\ doc.items[MaxItems]
          = RawItem(REQUIRED_FIELDS \cup {"path_base"}, "model", "url", "desktop")

\* C24: in each entry point a step of the engine (a status check, a
\* download_items call, an acquisition, a pool step) is taken only after
\* load_manifest and then validate_manifest have returned for the manifest
\* file, whose document validate_manifest accepts; an entry point that
\* validation (or loading) ended has made no download_items call and has
\* left the tree, the partial store and the result lists as they were.
C24_ValidatedBeforeAcquisition ==
    /\ [](entry.validated =>
            /\ entry.loaded
            /\ doc.exists
            /\ validate_manifest(doc) = NoExc)
    /\ [](entry.pc \in {"summary", "download", "done"} => entry.validated)
    /\ []((run.n > 0 \/ file_status_cache.set \/ run.attempted # {}) => entry.validated)
    /\ []((entry.pc = "failed" /\ ~entry.validated) =>
            /\ run = IdleRun
            /\ fs = [i \in Idx |-> Absent]
            /\ partial = [i \in Idx |-> Absent]
            /\ downloaded_items = <<>>
            /\ skipped_items = <<>>
            /\ calls = <<>>)
    /\ [][engine' # engine =>
            /\ entry.validated
            /\ entry.pc \in {"summary", "download"}
            /\ (run' # run \/ fs' # fs \/ calls' # calls \/ tasks' # tasks)
                  => entry.pc = "download"]_vars

\* An entry point that loaded and validated its manifest, then acquired an
\* item, is over.
C24_Witness ==
    /\ entry.pc = "done"
    /\ entry.point = "integration"
    /\ entry.validated
    /\ run.transferred # {}

\* C25 as stated: an acquirer call that neither completed a transfer nor
\* found the item up to date has raised to the dispatch routine, whether
\* the item is required or not.
C25_Stated ==
    \A i \in run.attempted :
        \/ i \in run.transferred
        \/ i \in SkippedInRun
        \/ \E f \in run.failures : f.item = i

\* C26: _verify_checksum returns a boolean for every path and digest; it
\* returns true iff there is a file at the path and its digest is the
\* expected one (false for a missing file and for a mismatch); it returns
\* true for a file and the digest computed from it, and false once one
\* byte of that file has been changed.
C26_VerifierRoundTrip ==
    verdict.called =>
        /\ verdict.result \in BOOLEAN
        /\ verdict.result
              <=> (verdict.file.kind = "file" /\ Sha256(verdict.file.data) = verdict.expected)
        /\ verdict.file.kind = "absent" => verdict.result = FALSE
        /\ (verdict.own /\ verdict.changed = 0) => verdict.result = TRUE
        /\ (verdict.own /\ verdict.changed = 1) => verdict.result = FALSE

\* The verifier has returned false for a file one byte of which was
\* changed after its digest was computed.
C26_Witness ==
    /\ verdict.own
    /\ verdict.changed = 1
    /\ verdict.file.kind = "file"
    /\ verdict.called
    /\ verdict.result = FALSE

\* C27 as stated: no acquisition of a hub item fails on account of the
\* fingerprint the hub reports: a hub item that declares no checksum never
\* fails by a checksum mismatch.
C27_Stated ==
    [][\A i \in Idx :
          (AcquiredNow(i) /\ manifest[i].source = "huggingface"
           /\ Checksum(manifest[i]) = NoSha) =>
              \A f \in run'.failures \ run.failures : ~IsMismatch(f.exc)]_vars

\* The step is an acquisition of the git item i whose destination holds a
\* checkout, and it did not find the checkout up to date.
GitRefresh(i) ==
    /\ AcquiredNow(i)
    /\ manifest[i].source = "git"
    /\ fs[i].kind = "dir"
    /\ fs[i].head # 0
    /\ probe' # "same"

\* c1 ran and c2 ran right after it.
Then(cs, c1, c2) == \E k \in 1..(Len(cs) - 1) : cs[k] = c1 /\ cs[k + 1] = c2

UrlNow(i) == AcquiredNow(i) /\ manifest[i].source = "url" /\ resume_downloads

\* ... that broke in mid-stream.
BrokeNow(i) ==
    /\ UrlNow(i)
    /\ \E f \in run'.failures \ run.failures : f.item = i /\ f.exc.cls = "ConnectionError"

\* ... that received the whole body of a 200 response.
CompletedNow(i) ==
    /\ UrlNow(i)
    /\ \A f \in run'.failures \ run.failures :
          f.item = i => f.exc.cls \notin {"ConnectionError", "HTTPError"}

IsPrefix(p, q) == Len(p) <= Len(q) /\ SubSeq(q, 1, Len(p)) = p

\* C29: with resume enabled, a URL download that breaks in mid-stream
\* leaves in the item's partial file the bytes it received (after the bytes
\* the file held, when it was resuming), and nothing but a URL download
\* changes the partial store; a later download sends a Range header only
\* when a partial file exists, with the file's size as offset; when it
\* completes after a Range request, it received only the bytes from that
\* offset on, the final path holds the partial file's bytes followed by
\* them, which is the complete content when the partial file is a prefix of
\* what the server has; a download that sent no Range header (no partial
\* file, or no range support advertised) received the content from byte
\* zero and leaves it complete at the final path; a completed download
\* leaves no partial file.
C29_ResumeAcrossRuns ==
    [][/\ partial' # partial => \E i \in Idx : UrlNow(i)
       /\ \A i \in Idx :
            UrlNow(i) =>
              LET p == partial[Slot(manifest, i)]
                  p1 == partial'[Slot(manifest, i)]
                  kept == IF wire'.range > 0 THEN p.data ELSE <<>>
              IN  /\ wire'.range # -1 => (p.kind = "file" /\ wire'.range = Len(p.data))
                  /\ p.kind = "absent" => wire'.range = -1
                  /\ BrokeNow(i) =>
                        /\ p1 = File(kept \o wire'.got)
                        /\ fs'[i] = fs[i]
                  /\ CompletedNow(i) =>
                        /\ wire'.got = SubSeq(wire'.served,
                                              (IF wire'.range > 0 THEN wire'.range ELSE 0) + 1,
                                              Len(wire'.served))
                        /\ fs'[i] = File(kept \o wire'.got)
                        /\ (wire'.range = -1 \/ IsPrefix(p.data, wire'.served)) =>
                              fs'[i] = File(wire'.served)
                        /\ p1 = Absent]_vars

\* A download broke after the first byte; the next run asked for the rest,
\* appended it, and the final path holds the whole content.
C29_Witness ==
    /\ Returned
    /\ run.n = 2
    /\ manifest[1].source = "url"
    /\ \E f \in prev.failures : f.item = 1 /\ f.exc.cls = "ConnectionError"
    /\ run.tree0[1] = Absent
    /\ run.failures = {}
    /\ wire = [range |-> 1, served |-> GoodData, got |-> <<2>>]
    /\ fs[1] = File(GoodData)
    /\ partial[1] = Absent

\* C30: a call of the pip runner invokes pip at most max_retries times
\* (3 by default); every invocation but the last failed with the file-lock
\* signature, so no other failure and no success is followed by another
\* invocation; the call returns exactly when the last invocation
\* succeeded; it raises after a failure without the signature, or after
\* max_retries lock failures; it sleeps once between two invocations,
\* first for retry_delay, then each time for one and a half times the
\* delay before, so the delays strictly increase.
C30_PipRetryBounded ==
    pip.pc # "none" =>
        LET n == Len(pip.ran)
        IN  /\ n <= pip.max_retries
            /\ \A k \in 1..(n - 1) : pip.ran[k] = "lock"
            /\ pip.pc = "loop" => (n < pip.max_retries /\ (n > 0 => pip.ran[n] = "lock"))
            /\ pip.pc = "returned" => (n > 0 /\ pip.ran[n] = "ok")
            /\ pip.pc = "raised" =>
                  /\ n > 0
                  /\ pip.ran[n] # "ok"
                  /\ pip.ran[n] = "lock" => n = pip.max_retries
            /\ (n > 0 /\ pip.ran[n] \in {"ok", "other", "oserr"}) => pip.pc # "loop"
            /\ (n = pip.max_retries) => pip.pc # "loop"
            /\ Len(pip.slept) = (IF pip.pc = "loop" THEN n ELSE n - 1)
            /\ Len(pip.slept) > 0 => pip.slept[1] = pip.delay0
            /\ \A k \in 1..(Len(pip.slept) - 1) :
                  /\ 2 * pip.slept[k + 1] = 3 * pip.slept[k]
                  /\ pip.slept[k] < pip.slept[k + 1]

\* With the defaults, pip failed three times on a locked file: the call
\* slept 2 and 3 seconds and raised.
C30_Witness ==
    /\ pip.pc = "raised"
    /\ pip.max_retries = 3
    /\ pip.ran = <<"lock", "lock", "lock">>
    /\ pip.slept = <<Seconds(2), Seconds(3)>>
    /\ pip.raised = "CalledProcessError"

\* The step is an acquisition of the hub item i.
HubNow(i) == AcquiredNow(i) /\ manifest[i].source = "huggingface"

\* c1 ran, and c2 ran later.
Before(cs, c1, c2) ==
    \E k \in 1..Len(cs), l \in 1..Len(cs) : k < l /\ cs[k] = c1 /\ cs[l] = c2

\* C31 as stated: after the hub acquirer returns or raises, the throwaway
\* subdirectory no longer exists; outside it only the target file may have
\* been placed at the final destination, after a successful download; the
\* checksum is verified after the move.
C31_Stated ==
    [][\A i \in Idx :
          HubNow(i) =>
              /\ ~temp_download_dir'
              /\ fs'[i] # fs[i] => Before(calls', "hf_hub_download", "move")
              /\ "verify" \in Range(calls') => Before(calls', "move", "verify")]_vars

\* C31: the hub acquirer creates the throwaway subdirectory, downloads
\* into it and, on the way out of every path, runs the removal of the
\* subdirectory, whose failure it ignores (so the subdirectory is gone
\* unless that removal failed); a download that failed moved nothing and
\* leaves the destination as it was; otherwise the one file moved to the
\* final destination is the content served; the checksum is verified only
\* after the move and after the removal; no other item's path is touched,
\* and of the partial store only the item's own entry may be deleted, after
\* a verification that passed.
C31_HubIsolation ==
    [][\A i \in Idx :
          HubNow(i) =>
              /\ SubSeq(calls', 1, 2) = <<"mkdir", "hf_hub_download">>
              /\ "rmtree" \in Range(calls')
              /\ temp_download_dir' => (temp_download_dir \/ "rmtree" \in Range(calls'))
              /\ "move" \in Range(calls') =>
                    /\ Then(calls', "hf_hub_download", "move")
                    /\ Then(calls', "move", "rmtree")
                    /\ fs'[i].kind = "file"
                    /\ fs'[i].data \in Contents
              /\ "move" \notin Range(calls') =>
                    /\ fs'[i] = fs[i]
                    /\ ~SucceededNow(i)
                    /\ "verify" \notin Range(calls')
              /\ "verify" \in Range(calls') =>
                    /\ Before(calls', "move", "verify")
                    /\ Before(calls', "rmtree", "verify")
              /\ \A j \in Idx \ {i} : fs'[j] = fs[j]
              /\ \A j \in Idx :
                    partial'[j] # partial[j] =>
                        /\ j = Slot(manifest, i)
                        /\ partial'[j] = Absent
                        /\ SucceededNow(i)
                        /\ "verify" \in Range(calls')]_vars

\* A hub download was moved to its destination and verified, and the
\* removal of the throwaway subdirectory left it behind.
C31_Witness ==
    /\ Returned
    /\ manifest[1].source = "huggingface"
    /\ run.attempted = {1}
    /\ run.failures = {}
    /\ calls = <<"mkdir", "hf_hub_download", "move", "rmtree", "verify">>
    /\ fs[1] = File(GoodData)
    /\ temp_download_dir

\* The step is an acquisition of the git item i, which asks for its
\* requirements to be installed.
GitReqNow(i) ==
    /\ AcquiredNow(i)
    /\ manifest[i].source = "git"
    /\ manifest[i].install_requirements

\* C32 as stated: a failed install of the requirements after a clone or an
\* update is only a warning for an item that is not required (the
\* acquisition succeeds, the checkout stays) and fails the acquisition of a
\* required item.
C32_Stated ==
    [][\A i \in Idx :
          (GitReqNow(i) /\ Range(calls') \cap {"pip:exit1", "pip:oserror"} # {}) =>
              IF manifest[i].required
              THEN ~SucceededNow(i)
              ELSE SucceededNow(i) /\ fs'[i].kind = "dir" /\ fs'[i].head # 0]_vars

\* A required git item was updated, pip exited non-zero, the checkout was
\* removed and cloned again, pip succeeded, and the acquisition succeeded.
RecloneAfterPip ==
    /\ Returned
    /\ manifest[1].source = "git"
    /\ manifest[1].install_requirements
    /\ manifest[1].required
    /\ run.failures = {}
    /\ calls = <<"rev-parse", "ls-remote", "fetch", "checkout", "reset", "pip:exit1",
                 "rmtree", "clone", "pip">>

\* How many times x is in seq.
Count(seq, x) == Cardinality({ k \in 1..Len(seq) : seq[k] = x })

\* C33 as stated: every item has at most one outcome record across
\* downloaded_items and skipped_items together.
C33_Stated ==
    \A i \in Idx : Count(downloaded_items, i) + Count(skipped_items, i) <= 1

\* C34 as stated: in a later attempt of process_manifest's token-retry
\* loop, no item is acquired again whose acquisition completed in the
\* attempt before.
C34_Stated ==
    (entry.point = "integration" /\ run.n >= 2) =>
        \A i \in prev.transferred : i \notin run.attempted

\* process_manifest has returned.
Ended == entry.pc \in {"done", "failed"}

\* C38: process_manifest comes to an end, after at most max_retries (3)
\* download_items calls; an authentication-class failure answered with a
\* token takes one attempt of the loop and leads to another call only while
\* fewer than three were made; a cancelled dialog and any other error end
\* the loop at once; a call that returned ends it with success; when it
\* ends without success, custom_nodes_installed was not assigned.
C38_RetryBounded ==
    /\ [](run.n <= max_retries)
    /\ [](entry.pc = "failed" => (~entry.assigned /\ ~entry.custom_nodes_installed))
    /\ [](entry.pc = "done" => (run.raised = NoRaise /\ entry.assigned))
    /\ [][/\ Ended => UNCHANGED vars
          /\ (entry.pc = "download" /\ entry' # entry) =>
                /\ entry'.attempt = entry.attempt + 1
                /\ entry'.attempt = run.n
                /\ entry'.pc = "download" =>
                      (run.raised # NoRaise /\ IsAuthError(run.raised.msg) /\ run.n < max_retries)
                /\ (run.raised # NoRaise /\ ~IsAuthError(run.raised.msg)) => entry'.pc = "failed"
                /\ (run.raised # NoRaise /\ run.n = max_retries) => entry'.pc = "failed"
                /\ run.raised = NoRaise => entry'.pc = "done"]_vars
    /\ <>Ended

\* Three calls failed on a 403 and three tokens were given: the loop is
\* over without success and without a fourth call.
C38_Witness ==
    /\ entry.pc = "failed"
    /\ entry.exc = NoExc
    /\ run.n = max_retries
    /\ IsAuthError(run.raised.msg)
    /\ budget = 1
    /\ ~entry.assigned

\* The step is an acquisition of item i by the URL or the hub acquirer
\* that failed on a checksum mismatch.
MismatchNow(i) ==
    /\ AcquiredNow(i)
    /\ manifest[i].source \in {"url", "huggingface"}
    /\ Checksum(manifest[i]) # NoSha
    /\ \E f \in run'.failures \ run.failures :
          f.item = i /\ SubSeq(f.exc.msg, 1, 1) = <<"Checksum mismatch for ">>

\* C35 as stated: when the URL or the hub acquirer fails an item on a
\* checksum mismatch, the content it downloaded is not at the item's final
\* path.
C35_Stated ==
    [][\A i \in Idx :
          MismatchNow(i) =>
              \/ fs'[i] = fs[i]
              \/ ~(fs'[i].kind = "file" /\ Sha256(fs'[i].data) # Checksum(manifest[i]))]_vars

\* C35: when the URL or the hub acquirer fails an item on a checksum
\* mismatch, the downloaded content is at the item's final path: it was
\* written or moved there before the verification and is not removed
\* after it; for a URL item it is the content the server sent.
C35_MismatchLeftInPlace ==
    [][\A i \in Idx :
          MismatchNow(i) =>
              /\ fs'[i].kind = "file"
              /\ Sha256(fs'[i].data) # Checksum(manifest[i])
              /\ manifest[i].source = "url" => fs'[i].data = wire'.served
              /\ manifest[i].source = "huggingface" => Before(calls', "move", "verify")]_vars

\* A hub download onto an empty path failed the verification and is at the
\* final path.
C35_Witness ==
    /\ Returned
    /\ manifest[1].source = "huggingface"
    /\ run.tree0[1] = Absent
    /\ \E f \in run.failures :
          f.item = 1 /\ SubSeq(f.exc.msg, 1, 1) = <<"Checksum mismatch for ">>
    /\ fs[1] = File(BadData)

\* C36 as stated: when the acquisition of a git item fails, a destination
\* that was a checkout before is still there afterwards.
C36_Stated ==
    [][\A i \in Idx :
          (AcquiredNow(i) /\ manifest[i].source = "git"
           /\ fs[i].kind = "dir" /\ fs[i].head # 0 /\ ~SucceededNow(i)) =>
              fs'[i].kind = "dir"]_vars

\* C39 as stated: a dry-run call returns without raising, whatever the
\* (valid) manifest lists.
C39_Stated ==
    (run.n > 0 /\ run.opts.dry_run /\ run.phase = "idle") => run.raised = NoRaise

\* The failures of the call that abort it: authentication-class ones and
\* those of required items.
FatalFailures ==
    { f \in run.failures : IsAuthError(f.exc.msg) \/ manifest[f.item].required }

\* C37: whether a call that is over has raised depends on the outcomes of
\* its items only, not on the dispatch mode: sequential or parallel, it has
\* raised exactly when one of its items failed fatally, it has attempted
\* every item of the work list when it has not, and when one item alone
\* failed fatally the error is that item's, authentication-class if its
\* message says so and a required-item failure otherwise.
C37_DispatchAgree ==
    Returned =>
        /\ run.raised # NoRaise <=> FatalFailures # {}
        /\ run.raised = NoRaise => run.attempted = Range(run.list)
        /\ \A f \in FatalFailures :
              FatalFailures = {f} =>
                  /\ run.raised.item = f.item
                  /\ run.raised.exc = f.exc
                  /\ run.raised.via = IF IsAuthError(f.exc.msg) THEN "auth" ELSE "required"

\* A parallel call over two items that raised for the failure of the
\* second while the failure of the first, an optional item, was logged.
C37_Witness ==
    /\ Returned
    /\ run.opts.parallel
    /\ Len(run.list) = 2
    /\ \E f \in FatalFailures : FatalFailures = {f} /\ f.item = 2 /\ run.raised.item = 2
    /\ \E f \in run.failures : f.item = 1

\* A sequential call over two items that raised for the failure of the
\* second after the failure of the first, an optional item, was logged.
SequentialTwin ==
    /\ Returned
    /\ ~run.opts.parallel
    /\ Len(run.list) = 2
    /\ \E f \in FatalFailures : FatalFailures = {f} /\ f.item = 2 /\ run.raised.item = 2
    /\ \E f \in run.failures : f.item = 1

====
